---- MODULE Spec2Model ----
(***************************************************************************)
(* A model of the three instructional notebooks of pract-examples:         *)
(*   pipelines_custom_training.ipynb      (Spec, SpecRun)                  *)
(*   explainable_text_classification.ipynb (SpecXai, SpecFn)               *)
(* A notebook is a list of cells run by one kernel; a cell is a list of    *)
(* statements.  A statement is a Python statement (an SDK call raises on   *)
(* failure) or an IPython shell escape (!cmd: a non-zero exit raises       *)
(* nothing).  The cloud, the file system and the clock are the             *)
(* environment.                                                            *)
(***************************************************************************)
EXTENDS Integers, Sequences, FiniteSets, TLC

\* Bounds of the model.
MaxReruns == 2
MaxClock == 3
TicksPerSecond == 2

VARIABLES
  kernel,   \* the cell in execution, its next statement, the last outcome
  ns,       \* the kernel's namespace: Python global name -> value
  cloud,    \* buckets, Artifact Registry repositories, pipeline runs
  files,    \* files of the notebook's working directory
  clock,    \* wall clock, in ticks of 1/TicksPerSecond s
  jobLog,   \* job_id of every PipelineJob object constructed, in order
  dag,      \* the platform's executions of the compiled pipeline (SpecRun)
  fn        \* arguments and results of the notebook's functions (SpecFn)

vars == <<kernel, ns, cloud, files, clock, jobLog, dag, fn>>

(***************************************************************************)
(* The kernel.                                                             *)
(***************************************************************************)
Idle == kernel.running = "none"

At(c, l) == kernel.running = c /\ kernel.line = l

Goto(l, f) == [kernel EXCEPT !.line = l, !.fault = f]

Done(st, f) == [kernel EXCEPT !.running = "none", !.line = 0, !.status = st, !.fault = f]

Has(names) == names \subseteq DOMAIN ns

Assign(env, bind) == [n \in DOMAIN env \cup DOMAIN bind |->
                        IF n \in DOMAIN bind THEN bind[n] ELSE env[n]]

NoNames == [n \in {} |-> ""]

KernelInit == [running |-> "none", line |-> 0, frontier |-> 0, reruns |-> 0,
               status |-> "none", fault |-> "none"]

\* The cells of pipelines_custom_training.ipynb that the model runs, in
\* document order.
PipelineCells == <<"restart", "imports", "setup", "repo", "consts",
                   "pipeline", "compile", "job", "submit">>

\* The user runs the next cell of the document, or runs an earlier one again.
\* The kernel takes one execution request at a time.
BeginCell(cells, i) ==
  /\ Idle
  /\ i <= kernel.frontier + 1
  /\ i <= kernel.frontier => kernel.reruns < MaxReruns
  /\ kernel' = [running |-> cells[i], line |-> 1,
                frontier |-> IF i > kernel.frontier THEN i ELSE kernel.frontier,
                reruns |-> IF i <= kernel.frontier THEN kernel.reruns + 1
                           ELSE kernel.reruns,
                status |-> "running", fault |-> "none"]

Begin ==
  /\ \E i \in 1..Len(PipelineCells) : BeginCell(PipelineCells, i)
  /\ UNCHANGED <<ns, cloud, files, clock, jobLog, dag, fn>>

(***************************************************************************)
(* Cells of pipelines_custom_training.ipynb.                               *)
(***************************************************************************)
\* app.kernel.do_shutdown(True): the kernel restarts with an empty namespace.
RestartKernel ==
  /\ At("restart", 1)
  /\ ns' = NoNames
  /\ kernel' = Done("ok", "none")
  /\ UNCHANGED <<cloud, files, clock, jobLog, dag, fn>>

ImportLibraries ==
  /\ At("imports", 1)
  /\ ns' = Assign(ns, [n \in {"datetime", "compiler", "dsl", "aiplatform",
                              "TabularDatasetCreateOp",
                              "CustomContainerTrainingJobRunOp",
                              "ModelBatchPredictOp"} |-> "imported"])
  /\ kernel' = Done("ok", "none")
  /\ UNCHANGED <<cloud, files, clock, jobLog, dag, fn>>

\* What `gcloud config list --format 'value(core.project)' 2>/dev/null` can
\* print: nothing (the command failed), an empty line (no project is set),
\* or the project.
GcloudProjectOutputs == {<<>>, <<"">>, <<"proj">>}

\* PROJECT_ID = ""; REGION = ...; if not PROJECT_ID: shell_output = !gcloud ...;
\* PROJECT_ID = shell_output[0]
SetProjectId ==
  /\ At("setup", 1)
  /\ \E shell_output \in GcloudProjectOutputs :
       IF shell_output = <<>>
       THEN /\ ns' = Assign(ns, [n \in {"PROJECT_ID", "REGION"} |->
                                   IF n = "REGION" THEN "us-central1" ELSE ""])
            /\ kernel' = Done("IndexError", "shell")
       ELSE /\ ns' = Assign(ns, [n \in {"PROJECT_ID", "REGION"} |->
                                   IF n = "REGION" THEN "us-central1"
                                   ELSE shell_output[1]])
            /\ kernel' = Goto(2, "none")
  /\ UNCHANGED <<cloud, files, clock, jobLog, dag, fn>>

\* BUCKET_NAME=f"gs://{PROJECT_ID}-bucket"
SetBucketName ==
  /\ At("setup", 2)
  /\ ns' = Assign(ns, [n \in {"BUCKET_NAME"} |->
                         "gs://" \o ns["PROJECT_ID"] \o "-bucket"])
  /\ kernel' = Goto(3, kernel.fault)
  /\ UNCHANGED <<cloud, files, clock, jobLog, dag, fn>>

\* A bucket name that Cloud Storage accepts starts with a letter or a digit.
ValidBucket(url) == url # "gs://-bucket"

\* !gsutil ls $BUCKET_NAME > /dev/null || ...   (left of ||)
\* gsutil ls exits 0 only for a bucket that exists and that it can list.
GsutilLs ==
  /\ At("setup", 3)
  /\ \E ok \in BOOLEAN :
       /\ ok => ns["BUCKET_NAME"] \in cloud.buckets
       /\ kernel' = IF ok THEN Goto(5, kernel.fault) ELSE Goto(4, "shell")
  /\ UNCHANGED <<ns, cloud, files, clock, jobLog, dag, fn>>

\* ... || gsutil mb -l $REGION $BUCKET_NAME     (right of ||)
\* gsutil mb exits 0 only when it has created the bucket.
GsutilMb ==
  /\ At("setup", 4)
  /\ \E ok \in BOOLEAN :
       /\ ok => /\ ns["BUCKET_NAME"] \notin cloud.buckets
                /\ ValidBucket(ns["BUCKET_NAME"])
       /\ cloud' = IF ok
                   THEN [cloud EXCEPT !.buckets = @ \cup {ns["BUCKET_NAME"]}]
                   ELSE cloud
       /\ kernel' = Goto(5, "shell")
  /\ UNCHANGED <<ns, files, clock, jobLog, dag, fn>>

\* shell_out = !gcloud auth list ...; SVC_ACCT = f'serviceAccount:{shell_out[0]}'
SetServiceAccount ==
  /\ At("setup", 5)
  /\ \E shell_out \in {<<>>, <<"acct">>} :
       IF shell_out = <<>>
       THEN /\ ns' = ns
            /\ kernel' = Done("IndexError", "shell")
       ELSE /\ ns' = Assign(ns, [n \in {"SVC_ACCT"} |->
                                   "serviceAccount:" \o shell_out[1]])
            /\ kernel' = Goto(6, kernel.fault)
  /\ UNCHANGED <<cloud, files, clock, jobLog, dag, fn>>

\* !gcloud storage buckets add-iam-policy-binding $BUCKET_NAME ...
AddIamPolicyBinding ==
  /\ At("setup", 6)
  /\ \E ok \in BOOLEAN :
       /\ ok => ns["BUCKET_NAME"] \in cloud.buckets
       /\ kernel' = Done("ok", IF ok THEN kernel.fault ELSE "shell")
  /\ UNCHANGED <<ns, cloud, files, clock, jobLog, dag, fn>>

\* REPO_NAME = ...; REPO_URI = f"{REGION}-docker.pkg.dev/{PROJECT_ID}/{REPO_NAME}"; ...
SetRepoNames ==
  /\ At("repo", 1)
  /\ IF Has({"REGION", "PROJECT_ID"})
     THEN /\ ns' = Assign(ns, [n \in {"REPO_NAME", "REPO_URI", "IMAGE_NAME", "VERSION"} |->
                     CASE n = "REPO_NAME" -> "beans-model-trainer"
                       [] n = "REPO_URI" -> ns["REGION"] \o "-docker.pkg.dev/"
                                            \o ns["PROJECT_ID"] \o "/beans-model-trainer"
                       [] n = "IMAGE_NAME" -> "scikit-beans"
                       [] OTHER -> "v1"])
          /\ kernel' = Goto(2, "none")
     ELSE /\ ns' = Assign(ns, [n \in {"REPO_NAME"} |-> "beans-model-trainer"])
          /\ kernel' = Done("NameError", "none")
  /\ UNCHANGED <<cloud, files, clock, jobLog, dag, fn>>

\* !gcloud artifacts repositories create $REPO_NAME --location $REGION ...
\* The command exits non-zero for a repository that exists.
CreateRepository ==
  /\ At("repo", 2)
  /\ \E ok \in BOOLEAN :
       /\ ok => ns["REPO_URI"] \notin cloud.repos
       /\ cloud' = IF ok THEN [cloud EXCEPT !.repos = @ \cup {ns["REPO_URI"]}]
                   ELSE cloud
       /\ kernel' = Done("ok", IF ok THEN "none" ELSE "shell")
  /\ UNCHANGED <<ns, files, clock, jobLog, dag, fn>>

\* PIPELINE_ROOT = f"{BUCKET_NAME}/pipeline_root/"
DefineConstants ==
  /\ At("consts", 1)
  /\ IF Has({"BUCKET_NAME"})
     THEN /\ ns' = Assign(ns, [n \in {"PIPELINE_ROOT"} |->
                                 ns["BUCKET_NAME"] \o "/pipeline_root/"])
          /\ kernel' = Done("ok", "none")
     ELSE /\ ns' = ns
          /\ kernel' = Done("NameError", "none")
  /\ UNCHANGED <<cloud, files, clock, jobLog, dag, fn>>

\* @dsl.pipeline(name=..., pipeline_root=PIPELINE_ROOT) def my_pipeline(
\*     bucket: str = BUCKET_NAME, project: str = PROJECT_ID, gcp_region: str = REGION, ...)
\* The decorator and the default values are evaluated when the cell runs.
DefinePipeline ==
  /\ At("pipeline", 1)
  /\ IF Has({"dsl", "PIPELINE_ROOT", "BUCKET_NAME", "PROJECT_ID", "REGION"})
     THEN /\ ns' = Assign(ns, [n \in {"my_pipeline"} |-> "automl-beans-custom"])
          /\ kernel' = Done("ok", "none")
     ELSE /\ ns' = ns
          /\ kernel' = Done("NameError", "none")
  /\ UNCHANGED <<cloud, files, clock, jobLog, dag, fn>>

\* package_path="custom_train_pipeline.json"
package_path == "custom_train_pipeline.json"

\* Mutant of template_path: the job is given another file.
template_path_other == "pipeline.json"

\* template_path="custom_train_pipeline.json"
template_path == "custom_train_pipeline.json"

\* Mutant of CompilePipeline: the call wrapped in try/except, the cell going on.
CompilePipelineSwallowing ==
  /\ At("compile", 1)
  /\ IF ~Has({"compiler", "my_pipeline"})
     THEN /\ files' = files
          /\ kernel' = Done("NameError", "none")
     ELSE \E ok \in BOOLEAN :
            /\ files' = IF ok THEN files \cup {package_path} ELSE files
            /\ kernel' = IF ok THEN Done("ok", "none") ELSE Done("ok", "sdk")
  /\ UNCHANGED <<ns, cloud, clock, jobLog, dag, fn>>

\* compiler.Compiler().compile(pipeline_func=my_pipeline,
\*                             package_path="custom_train_pipeline.json")
CompilePipeline ==
  /\ At("compile", 1)
  /\ IF ~Has({"compiler", "my_pipeline"})
     THEN /\ files' = files
          /\ kernel' = Done("NameError", "none")
     ELSE \E ok \in BOOLEAN :
            /\ files' = IF ok THEN files \cup {package_path} ELSE files
            /\ kernel' = IF ok THEN Done("ok", "none") ELSE Done("SdkError", "sdk")
  /\ UNCHANGED <<ns, cloud, clock, jobLog, dag, fn>>

\* datetime.now().strftime("%Y%m%d%H%M%S"): the time of day cut to whole seconds.
strftime(t) == ToString(t \div TicksPerSecond)

\* TIMESTAMP = datetime.now().strftime("%Y%m%d%H%M%S")
\* pipeline_job = aiplatform.PipelineJob(template_path="custom_train_pipeline.json",
\*                                       job_id=f"custom-train-pipeline-{TIMESTAMP}", ...)
\* The constructor reads the template file and raises when it cannot.
DefinePipelineJob ==
  /\ At("job", 1)
  /\ IF ~Has({"datetime"})
     THEN /\ ns' = ns
          /\ jobLog' = jobLog
          /\ kernel' = Done("NameError", "none")
     ELSE LET TIMESTAMP == strftime(clock)
              job_id == "custom-train-pipeline-" \o TIMESTAMP
              stamped == Assign(ns, [n \in {"TIMESTAMP"} |-> TIMESTAMP])
          IN IF ~Has({"aiplatform", "PROJECT_ID", "BUCKET_NAME", "REPO_URI",
                      "IMAGE_NAME", "VERSION"})
             THEN /\ ns' = stamped
                  /\ jobLog' = jobLog
                  /\ kernel' = Done("NameError", "none")
             ELSE \E ok \in BOOLEAN :
                    /\ ok => template_path \in files
                    /\ ns' = IF ok
                             THEN Assign(stamped, [n \in {"pipeline_job"} |-> job_id])
                             ELSE stamped
                    /\ jobLog' = IF ok THEN Append(jobLog, job_id) ELSE jobLog
                    /\ kernel' = IF ok THEN Done("ok", "none")
                                 ELSE Done("SdkError", "sdk")
  /\ UNCHANGED <<cloud, files, clock, dag, fn>>

\* Mutant of SubmitPipelineJob: pipeline_job.run(), which returns when the run
\* has ended.
SubmitAndWait ==
  /\ At("submit", 1)
  /\ IF ~Has({"pipeline_job"})
     THEN /\ cloud' = cloud
          /\ kernel' = Done("NameError", "none")
     ELSE \E ok \in BOOLEAN, end \in {"SUCCEEDED", "FAILED"} :
            /\ ok => ns["pipeline_job"] \notin DOMAIN cloud.runs
            /\ cloud' = IF ok
                        THEN [cloud EXCEPT !.runs =
                                Assign(@, [j \in {ns["pipeline_job"]} |-> end])]
                        ELSE cloud
            /\ kernel' = IF ok THEN Done("ok", "none") ELSE Done("SdkError", "sdk")
  /\ UNCHANGED <<ns, files, clock, jobLog, dag, fn>>

\* pipeline_job.submit(): asks the platform to create the run and returns;
\* the platform refuses a job ID it already holds.
SubmitPipelineJob ==
  /\ At("submit", 1)
  /\ IF ~Has({"pipeline_job"})
     THEN /\ cloud' = cloud
          /\ kernel' = Done("NameError", "none")
     ELSE \E ok \in BOOLEAN :
            /\ ok => ns["pipeline_job"] \notin DOMAIN cloud.runs
            /\ cloud' = IF ok
                        THEN [cloud EXCEPT !.runs =
                                Assign(@, [j \in {ns["pipeline_job"]} |-> "RUNNING"])]
                        ELSE cloud
            /\ kernel' = IF ok THEN Done("ok", "none") ELSE Done("SdkError", "sdk")
  /\ UNCHANGED <<ns, files, clock, jobLog, dag, fn>>

(***************************************************************************)
(* The environment.                                                        *)
(***************************************************************************)
\* The platform finishes a pipeline run.
RunEnds ==
  /\ \E j \in DOMAIN cloud.runs, end \in {"SUCCEEDED", "FAILED"} :
       /\ cloud.runs[j] = "RUNNING"
       /\ cloud' = [cloud EXCEPT !.runs[j] = end]
  /\ UNCHANGED <<kernel, ns, files, clock, jobLog, dag, fn>>

Tick ==
  /\ clock < MaxClock
  /\ clock' = clock + 1
  /\ UNCHANGED <<kernel, ns, cloud, files, jobLog, dag, fn>>

Init ==
  /\ kernel = KernelInit
  /\ ns = NoNames
  /\ cloud \in {[buckets |-> b, repos |-> {}, runs |-> NoNames] :
                  b \in {{}, {"gs://proj-bucket"}}}
  /\ files = {}
  /\ clock = 0
  /\ jobLog = <<>>
  /\ dag = <<>>
  /\ fn = <<>>

Next ==
  \/ Begin
  \/ RestartKernel
  \/ ImportLibraries
  \/ SetProjectId
  \/ SetBucketName
  \/ GsutilLs
  \/ GsutilMb
  \/ SetServiceAccount
  \/ AddIamPolicyBinding
  \/ SetRepoNames
  \/ CreateRepository
  \/ DefineConstants
  \/ DefinePipeline
  \/ CompilePipeline
  \/ DefinePipelineJob
  \/ SubmitPipelineJob
  \/ RunEnds
  \/ Tick

Spec == Init /\ [][Next]_vars

(***************************************************************************)
(* Claims about pipelines_custom_training.ipynb, checked under Spec.       *)
(***************************************************************************)
RunInProgress == \E j \in DOMAIN cloud.runs : cloud.runs[j] = "RUNNING"

CellEnds(c) == kernel.running = c /\ kernel'.running = "none"

\* C2 as stated: one cell runs at a time, and all work started by a cell,
\* the pipeline run started by pipeline_job.submit() included, has finished
\* before the next cell begins.
C2_AllWorkFinishedBeforeNextCell ==
  [][(kernel'.running # kernel.running /\ kernel'.running # "none")
       => (kernel.running = "none" /\ ~RunInProgress)]_vars

\* C2 amended: a cell begins only when no cell is running, so at most one
\* cell runs and every statement of a cell has finished before the next cell
\* begins; pipeline_job.submit() only creates the run: when the submit cell
\* ends without an exception the run it created is still in progress.
C2_OneCellAtATimeSubmitReturnsEarly ==
  [][/\ (kernel'.running # kernel.running /\ kernel'.running # "none")
          => kernel.running = "none"
     /\ (CellEnds("submit") /\ kernel'.status = "ok")
          => /\ ns["pipeline_job"] \in DOMAIN cloud'.runs
             /\ cloud'.runs[ns["pipeline_job"]] = "RUNNING"]_vars

\* C2 witness: a cell is running while a submitted pipeline run is in progress.
C2_CellRunsDuringRun == kernel.running # "none" /\ RunInProgress

\* C3 as stated: a failed external call, SDK call or shell command alike,
\* has stopped its cell with an exception.
C3_EveryFailureStopsTheCell ==
  kernel.fault # "none"
    => kernel.running = "none" /\ kernel.status \notin {"ok", "running"}

\* C3 amended: a failed SDK call has stopped its cell with the SDK's
\* exception and nothing of the cell ran after it; a failed shell command
\* raises nothing: the cell goes on (gsutil mb runs only as the fallback of a
\* failed gsutil ls) and can only end normally or in the IndexError of
\* indexing the command's empty output.
C3_SdkFailureStopsShellFailureDoesNot ==
  /\ kernel.fault = "sdk" <=> kernel.status = "SdkError"
  /\ kernel.status = "SdkError" => kernel.running = "none"
  /\ kernel.fault = "shell" => kernel.status \in {"running", "ok", "IndexError"}
  /\ At("setup", 4) => kernel.fault = "shell"

\* C3 witness: an SDK call has failed and its cell is stopped by the exception.
C3_SdkCallFailed ==
  kernel.fault = "sdk" /\ kernel.status = "SdkError" /\ kernel.running = "none"

\* C4 as stated: gsutil mb is invoked only for a bucket that is absent, and
\* once the ls || mb line is over the bucket exists.
C4_MbOnlyWhenAbsentBucketExistsAfter ==
  /\ At("setup", 4) => ns["BUCKET_NAME"] \notin cloud.buckets
  /\ At("setup", 5) => ns["BUCKET_NAME"] \in cloud.buckets

\* C5 as stated: any two executions of the job-definition cell produce
\* PipelineJob objects with different job_id values.
C5_JobIdsUnique ==
  \A i, j \in 1..Len(jobLog) : i # j => jobLog[i] # jobLog[j]

\* C15 as stated: when the setup cell has run, PROJECT_ID is a non-empty
\* string and BUCKET_NAME is gs://<PROJECT_ID>-bucket.
C15_ProjectIdSetAfterSetup ==
  [][CellEnds("setup") =>
       /\ {"PROJECT_ID", "BUCKET_NAME"} \subseteq DOMAIN ns'
       /\ ns'["PROJECT_ID"] # ""
       /\ ns'["BUCKET_NAME"] = "gs://" \o ns'["PROJECT_ID"] \o "-bucket"]_vars

\* C18: the file the PipelineJob is given as template_path is the file that
\* compile writes as package_path; a job has been constructed only when compile
\* had written that file, and a run has been submitted only for a job
\* constructed so.
C18_JobRunsCompiledDefinition ==
  /\ template_path = package_path
  /\ jobLog # <<>> => package_path \in files
  /\ \A j \in DOMAIN cloud.runs :
       /\ \E k \in 1..Len(jobLog) : jobLog[k] = j
       /\ package_path \in files

\* C18 witness: a run of a job constructed from the compiled file has been
\* submitted.
C18_RunSubmitted ==
  /\ cloud.runs # NoNames
  /\ package_path \in files

(***************************************************************************)
(* SpecRun: the platform executing runs of the pipeline that my_pipeline   *)
(* defines.  A task is scheduled once every task output it takes as an     *)
(* argument exists; with enable_caching=True a task whose earlier          *)
(* execution had the same inputs is not executed and its outputs are       *)
(* reused.                                                                 *)
(***************************************************************************)
MaxRuns == 2

Tasks == {"dataset_create_op", "training_op", "batch_predict_op"}

\* Mutant of Inputs: training_op is given no output of dataset_create_op.
InputsWithoutDataset(t) ==
  CASE t = "batch_predict_op" -> {<<"training_op", "model">>}
    [] OTHER -> {}

\* The task outputs that task t takes as arguments:
\*   training_op:      dataset=dataset_create_op.outputs["dataset"]
\*   batch_predict_op: model=training_op.outputs["model"]
Inputs(t) ==
  CASE t = "training_op" -> {<<"dataset_create_op", "dataset">>}
    [] t = "batch_predict_op" -> {<<"training_op", "model">>}
    [] OTHER -> {}

\* The outputs of task t that my_pipeline refers to.
Outputs(t) ==
  CASE t = "dataset_create_op" -> {<<"dataset_create_op", "dataset">>}
    [] t = "training_op" -> {<<"training_op", "model">>}
    [] OTHER -> {}

NoRun == [state |-> [t \in Tasks |-> "ABSENT"], artifacts |-> {}]

\* An artifact is an output together with the run whose execution made it.
Made(outs, r) == {<<o[1], o[2], r>> : o \in outs}

\* The artifacts of run r that task t takes as its inputs.
InputArtifacts(r, t) ==
  {a \in dag.runs[r].artifacts : <<a[1], a[2]>> \in Inputs(t)}

InputsReady(r, t) ==
  \A i \in Inputs(t) : \E a \in dag.runs[r].artifacts : <<a[1], a[2]>> = i

\* pipeline_job.submit() has created run r.
CreateRun(r) ==
  /\ dag.runs[r] = NoRun
  /\ \A q \in 1..(r - 1) : dag.runs[q] # NoRun
  /\ dag' = [dag EXCEPT !.runs[r].state = [t \in Tasks |-> "PENDING"]]
  /\ UNCHANGED <<kernel, ns, cloud, files, clock, jobLog, fn>>

\* The platform starts the execution of a task whose inputs exist.
StartTask(r, t) ==
  /\ dag.runs[r].state[t] = "PENDING"
  /\ InputsReady(r, t)
  /\ ~\E c \in dag.cache : c.task = t /\ c.ins = InputArtifacts(r, t)
  /\ dag' = [dag EXCEPT !.runs[r].state[t] = "RUNNING"]
  /\ UNCHANGED <<kernel, ns, cloud, files, clock, jobLog, fn>>

\* enable_caching=True: the task is not executed, the outputs of its
\* earlier execution with the same inputs become its outputs.
ReuseCached(r, t) ==
  /\ dag.runs[r].state[t] = "PENDING"
  /\ InputsReady(r, t)
  /\ \E c \in dag.cache :
       /\ c.task = t
       /\ c.ins = InputArtifacts(r, t)
       /\ dag' = [dag EXCEPT !.runs[r].state[t] = "SKIPPED",
                             !.runs[r].artifacts = @ \cup c.outs]
  /\ UNCHANGED <<kernel, ns, cloud, files, clock, jobLog, fn>>

\* The execution of a task ends: with its outputs, or in failure.
FinishTask(r, t) ==
  /\ dag.runs[r].state[t] = "RUNNING"
  /\ \/ dag' = [dag EXCEPT
                  !.runs[r].state[t] = "SUCCEEDED",
                  !.runs[r].artifacts = @ \cup Made(Outputs(t), r),
                  !.cache = @ \cup {[task |-> t, ins |-> InputArtifacts(r, t),
                                     outs |-> Made(Outputs(t), r)]}]
     \/ dag' = [dag EXCEPT !.runs[r].state[t] = "FAILED"]
  /\ UNCHANGED <<kernel, ns, cloud, files, clock, jobLog, fn>>

InitRun ==
  /\ kernel = KernelInit
  /\ ns = NoNames
  /\ cloud = [buckets |-> {"gs://proj-bucket"}, repos |-> {}, runs |-> NoNames]
  /\ files = {"custom_train_pipeline.json"}
  /\ clock = 0
  /\ jobLog = <<>>
  /\ dag = [runs |-> [r \in 1..MaxRuns |-> NoRun], cache |-> {}]
  /\ fn = <<>>

NextRun ==
  \/ \E r \in 1..MaxRuns : CreateRun(r)
  \/ \E r \in 1..MaxRuns, t \in Tasks : StartTask(r, t)
  \/ \E r \in 1..MaxRuns, t \in Tasks : ReuseCached(r, t)
  \/ \E r \in 1..MaxRuns, t \in Tasks : FinishTask(r, t)

SpecRun == InitRun /\ [][NextRun]_vars

Started(r, t) == dag.runs[r].state[t] \in {"RUNNING", "SUCCEEDED", "FAILED", "SKIPPED"}

HasOutput(r, t) ==
  /\ dag.runs[r].state[t] \in {"SUCCEEDED", "SKIPPED"}
  /\ \E a \in dag.runs[r].artifacts : <<a[1], a[2]>> \in Outputs(t)

\* C1: in every run of my_pipeline the training step has not started unless
\* the dataset-creation step has produced its dataset output, and the
\* batch-prediction step has not started unless the training step has
\* produced its model output.
C1_StepsInOrder ==
  \A r \in 1..MaxRuns :
    /\ Started(r, "training_op") => HasOutput(r, "dataset_create_op")
    /\ Started(r, "batch_predict_op") => HasOutput(r, "training_op")

\* C1 witness: a run in which all three steps have started.
C1_AllStepsStarted ==
  \E r \in 1..MaxRuns : \A t \in Tasks : Started(r, t)

(***************************************************************************)
(* SpecXai: a session of explainable_text_classification.ipynb.  Here      *)
(* cloud holds the buckets, the objects written to them, the models of the *)
(* Model Registry, the endpoints and the explain requests received.        *)
(***************************************************************************)
XaiCells == <<"imports", "project", "bucket", "init", "load", "seed", "train",
              "export", "signature", "metadata", "parameters", "upload",
              "deploy", "def_send", "explain", "highlights", "explain10">>

BeginXai ==
  /\ \E i \in 1..Len(XaiCells) : BeginCell(XaiCells, i)
  /\ UNCHANGED <<ns, cloud, files, clock, jobLog, dag, fn>>

\* A cell of plain Python: it binds `bind` when the names it reads are
\* defined and raises NameError otherwise.
PythonCell(c, reads, bind) ==
  /\ At(c, 1)
  /\ IF Has(reads)
     THEN ns' = Assign(ns, bind) /\ kernel' = Done("ok", "none")
     ELSE ns' = ns /\ kernel' = Done("NameError", "none")
  /\ UNCHANGED <<cloud, files, clock, jobLog, dag, fn>>

XaiImports ==
  PythonCell("imports", {},
             [n \in {"os", "np", "tf", "aiplatform", "storage", "imdb", "LSTM",
                     "Dense", "Embedding", "Sequential", "pad_sequences",
                     "json", "plt", "display", "HTML"} |-> "imported"])

\* project_id_list = !gcloud config get-value project 2> /dev/null
\* PROJECT_ID = project_id_list[0]; REGION = ...; BUCKET_URI = f"gs://explainable-ai-{PROJECT_ID}"
XaiSetProject ==
  /\ At("project", 1)
  /\ \E project_id_list \in GcloudProjectOutputs :
       IF project_id_list = <<>>
       THEN /\ ns' = ns
            /\ kernel' = Done("IndexError", "shell")
       ELSE /\ ns' = Assign(ns, [n \in {"PROJECT_ID", "REGION", "BUCKET_URI"} |->
                       CASE n = "PROJECT_ID" -> project_id_list[1]
                         [] n = "REGION" -> "us-central1"
                         [] OTHER -> "gs://explainable-ai-" \o project_id_list[1]])
            /\ kernel' = Done("ok", "none")
  /\ UNCHANGED <<cloud, files, clock, jobLog, dag, fn>>

\* ! gsutil ls $BUCKET_URI > /dev/null || ...   (left of ||).  IPython leaves
\* an undefined $BUCKET_URI to the shell, where it is empty: gsutil ls then
\* lists the project's buckets.
XaiGsutilLs ==
  /\ At("bucket", 1)
  /\ \E ok \in BOOLEAN :
       /\ (ok /\ Has({"BUCKET_URI"})) => ns["BUCKET_URI"] \in cloud.buckets
       /\ kernel' = IF ok THEN Done("ok", "none") ELSE Goto(2, "shell")
  /\ UNCHANGED <<ns, cloud, files, clock, jobLog, dag, fn>>

\* ... || gsutil mb -l $REGION $BUCKET_URI      (right of ||)
XaiGsutilMb ==
  /\ At("bucket", 2)
  /\ \E ok \in BOOLEAN :
       /\ ok => /\ Has({"BUCKET_URI", "REGION"})
                /\ ns["BUCKET_URI"] \notin cloud.buckets
                /\ ns["PROJECT_ID"] # ""
       /\ cloud' = IF ok
                   THEN [cloud EXCEPT !.buckets = @ \cup {ns["BUCKET_URI"]}]
                   ELSE cloud
       /\ kernel' = Done("ok", "shell")
  /\ UNCHANGED <<ns, files, clock, jobLog, dag, fn>>

\* aiplatform.init(project=PROJECT_ID, location=REGION, staging_bucket=BUCKET_URI)
XaiInit ==
  PythonCell("init", {"aiplatform", "PROJECT_ID", "REGION", "BUCKET_URI"},
             [n \in {} |-> ""])

\* max_features = 10000; maxlen = 80
\* (x_train, y_train), (x_test, y_test) = imdb.load_data(num_words=max_features)
\* x_train = pad_sequences(x_train, maxlen=maxlen); x_test = ...
\* load_data downloads the dataset.
XaiLoadData ==
  /\ At("load", 1)
  /\ IF ~Has({"imdb", "pad_sequences"})
     THEN /\ ns' = Assign(ns, [n \in {"max_features", "maxlen"} |-> "int"])
          /\ kernel' = Done("NameError", "none")
     ELSE \E ok \in BOOLEAN :
            IF ok
            THEN /\ ns' = Assign(ns, [n \in {"max_features", "maxlen", "x_train",
                                             "y_train", "x_test", "y_test"} |->
                              IF n \in {"max_features", "maxlen"} THEN "int"
                              ELSE "array"])
                 /\ kernel' = Done("ok", "none")
            ELSE /\ ns' = Assign(ns, [n \in {"max_features", "maxlen"} |-> "int"])
                 /\ kernel' = Done("SdkError", "sdk")
  /\ UNCHANGED <<cloud, files, clock, jobLog, dag, fn>>

\* tf.keras.utils.set_random_seed(42); ...; weight_init = ...; bias_init = ...
XaiSeed ==
  PythonCell("seed", {"tf"}, [n \in {"weight_init", "bias_init"} |-> "initializer"])

\* model = Sequential(); model.add(...); model.compile(...); model.fit(x_train, ...)
XaiTrain ==
  PythonCell("train", {"Sequential", "Embedding", "LSTM", "Dense", "max_features",
                       "weight_init", "bias_init", "x_train", "y_train", "x_test",
                       "y_test"},
             [n \in {"model", "loss", "accuracy"} |-> IF n = "model" THEN "lstm" ELSE "float"])

\* MODEL_DIR = f"{BUCKET_URI}/model"; tf.saved_model.save(model, MODEL_DIR)
\* The save writes to the bucket and fails when it cannot.
XaiExport ==
  /\ At("export", 1)
  /\ IF ~Has({"BUCKET_URI"})
     THEN /\ ns' = ns
          /\ cloud' = cloud
          /\ kernel' = Done("NameError", "none")
     ELSE LET MODEL_DIR == ns["BUCKET_URI"] \o "/model"
              named == Assign(ns, [n \in {"MODEL_DIR"} |-> MODEL_DIR])
          IN /\ ns' = named
             /\ IF ~Has({"tf", "model"})
                THEN /\ cloud' = cloud
                     /\ kernel' = Done("NameError", "none")
                ELSE \E ok \in BOOLEAN :
                       /\ ok => ns["BUCKET_URI"] \in cloud.buckets
                       /\ cloud' = IF ok
                                   THEN [cloud EXCEPT !.objects = @ \cup {MODEL_DIR}]
                                   ELSE cloud
                       /\ kernel' = IF ok THEN Done("ok", "none")
                                    ELSE Done("SdkError", "sdk")
  /\ UNCHANGED <<files, clock, jobLog, dag, fn>>

\* MODEL_DIR = f"{BUCKET_URI}/model"; saved_model = tf.saved_model.load(MODEL_DIR)
\* serving_input = ...; serving_output = ...
XaiSignature ==
  /\ At("signature", 1)
  /\ IF ~Has({"BUCKET_URI"})
     THEN /\ ns' = ns
          /\ kernel' = Done("NameError", "none")
     ELSE LET MODEL_DIR == ns["BUCKET_URI"] \o "/model"
              named == Assign(ns, [n \in {"MODEL_DIR"} |-> MODEL_DIR])
          IN IF ~Has({"tf"})
             THEN /\ ns' = named
                  /\ kernel' = Done("NameError", "none")
             ELSE \E ok \in BOOLEAN :
                    /\ ok => MODEL_DIR \in cloud.objects
                    /\ ns' = IF ok
                             THEN Assign(named,
                                    [n \in {"saved_model", "serving_input", "serving_output"} |->
                                       CASE n = "serving_input" -> "embeddings_input"
                                         [] n = "serving_output" -> "dense"
                                         [] OTHER -> "lstm"])
                             ELSE named
                    /\ kernel' = IF ok THEN Done("ok", "none")
                                 ELSE Done("SdkError", "sdk")
  /\ UNCHANGED <<cloud, files, clock, jobLog, dag, fn>>

\* INPUT_METADATA = {"my_input": InputMetadata({"input_tensor_name": serving_input,
\*                                              "encoding": Encoding(1)})}
\* OUTPUT_METADATA = {"my_output": OutputMetadata({"output_tensor_name": serving_output})}
\* metadata = aiplatform.explain.ExplanationMetadata(inputs=..., outputs=...)
XaiMetadata ==
  /\ At("metadata", 1)
  /\ IF ~Has({"aiplatform", "serving_input"})
     THEN /\ ns' = ns
          /\ kernel' = Done("NameError", "none")
     ELSE LET INPUT_METADATA ==
                [my_input |-> [input_tensor_name |-> ns["serving_input"], encoding |-> 1]]
          IN IF ~Has({"serving_output"})
             THEN /\ ns' = Assign(ns, [n \in {"INPUT_METADATA"} |-> INPUT_METADATA])
                  /\ kernel' = Done("NameError", "none")
             ELSE LET OUTPUT_METADATA ==
                        [my_output |-> [output_tensor_name |-> ns["serving_output"]]]
                  IN /\ ns' = Assign(ns,
                               [n \in {"INPUT_METADATA", "OUTPUT_METADATA", "metadata"} |->
                                  CASE n = "INPUT_METADATA" -> INPUT_METADATA
                                    [] n = "OUTPUT_METADATA" -> OUTPUT_METADATA
                                    [] OTHER -> [inputs |-> INPUT_METADATA,
                                                 outputs |-> OUTPUT_METADATA]])
                     /\ kernel' = Done("ok", "none")
  /\ UNCHANGED <<cloud, files, clock, jobLog, dag, fn>>

\* Mutant of FEATURE_PARAMETERS: a second attribution method is set as well.
FEATURE_PARAMETERS_TwoMethods ==
  [m \in {"sampled_shapley_attribution", "integrated_gradients_attribution"} |->
     IF m = "sampled_shapley_attribution" THEN [path_count |-> 10]
     ELSE [step_count |-> 10]]

\* FEATURE_PARAMETERS = {"sampled_shapley_attribution": {"path_count": 10}}
FEATURE_PARAMETERS == [sampled_shapley_attribution |-> [path_count |-> 10]]

\* feature_parameters = aiplatform.explain.ExplanationParameters(FEATURE_PARAMETERS)
XaiParameters ==
  /\ At("parameters", 1)
  /\ IF Has({"aiplatform"})
     THEN /\ ns' = Assign(ns, [n \in {"FEATURE_PARAMETERS", "feature_parameters"} |->
                                 FEATURE_PARAMETERS])
          /\ kernel' = Done("ok", "none")
     ELSE /\ ns' = Assign(ns, [n \in {"FEATURE_PARAMETERS"} |-> FEATURE_PARAMETERS])
          /\ kernel' = Done("NameError", "none")
  /\ UNCHANGED <<cloud, files, clock, jobLog, dag, fn>>

NextId(f) == Cardinality(DOMAIN f) + 1

\* Mutant of ExplanationSpec: the upload without explanation_metadata.
ExplanationSpecWithoutMetadata ==
  [k \in {"explanation_parameters"} |-> ns["feature_parameters"]]

\* explanation_parameters=feature_parameters, explanation_metadata=metadata
ExplanationSpec ==
  [k \in {"explanation_parameters", "explanation_metadata"} |->
     IF k = "explanation_parameters" THEN ns["feature_parameters"] ELSE ns["metadata"]]

\* uploaded_feature_model = aiplatform.Model.upload(display_name=...,
\*     artifact_uri=MODEL_DIR, serving_container_image_uri=...,
\*     explanation_parameters=feature_parameters, explanation_metadata=metadata)
XaiUpload ==
  /\ At("upload", 1)
  /\ IF ~Has({"aiplatform", "MODEL_DIR", "feature_parameters", "metadata"})
     THEN /\ ns' = ns
          /\ cloud' = cloud
          /\ kernel' = Done("NameError", "none")
     ELSE \E ok \in BOOLEAN :
            LET id == NextId(cloud.models)
            IN /\ ok => ns["MODEL_DIR"] \in cloud.objects
               /\ cloud' = IF ok
                           THEN [cloud EXCEPT !.models = Assign(@,
                                   [m \in {id} |-> [artifact_uri |-> ns["MODEL_DIR"],
                                                    spec |-> ExplanationSpec]])]
                           ELSE cloud
               /\ ns' = IF ok THEN Assign(ns, [n \in {"uploaded_feature_model"} |-> id])
                        ELSE ns
               /\ kernel' = IF ok THEN Done("ok", "none") ELSE Done("SdkError", "sdk")
  /\ UNCHANGED <<files, clock, jobLog, dag, fn>>

\* The model that uploaded_feature_model.deploy(...) deploys.
DeployableModel == ns["uploaded_feature_model"]

\* feature_endpoint = uploaded_feature_model.deploy(deployed_model_display_name=..., ...)
XaiDeploy ==
  /\ At("deploy", 1)
  /\ IF ~Has({"uploaded_feature_model"})
     THEN /\ ns' = ns
          /\ cloud' = cloud
          /\ kernel' = Done("NameError", "none")
     ELSE \E ok \in BOOLEAN :
            LET id == NextId(cloud.endpoints)
            IN /\ cloud' = IF ok
                           THEN [cloud EXCEPT !.endpoints =
                                   Assign(@, [e \in {id} |-> DeployableModel])]
                           ELSE cloud
               /\ ns' = IF ok THEN Assign(ns, [n \in {"feature_endpoint"} |-> id])
                        ELSE ns
               /\ kernel' = IF ok THEN Done("ok", "none") ELSE Done("SdkError", "sdk")
  /\ UNCHANGED <<files, clock, jobLog, dag, fn>>

\* def send_explanation_request(endpoint, review=0): ...
XaiDefSend ==
  PythonCell("def_send", {}, [n \in {"send_explanation_request"} |-> "function"])

\* send_explanation_request(endpoint, review): example = x_test[review].tolist();
\* example_label = y_test[review]; result = endpoint.explain([example]); ...
\* The state of the cloud after the call, and whether it returned.
SendExplanationRequest(endpoint, review, ok) ==
  IF ok
  THEN [cloud EXCEPT !.explains = @ \cup {[endpoint |-> endpoint, review |-> review]}]
  ELSE cloud

\* example, example_label, prediction, explanations =
\*     send_explanation_request(feature_endpoint, review=2)
XaiExplain ==
  /\ At("explain", 1)
  /\ IF ~Has({"send_explanation_request", "feature_endpoint", "x_test", "y_test"})
     THEN /\ ns' = ns
          /\ cloud' = cloud
          /\ kernel' = Done("NameError", "none")
     ELSE \E ok \in BOOLEAN :
            /\ ok => ns["feature_endpoint"] \in DOMAIN cloud.endpoints
            /\ cloud' = SendExplanationRequest(ns["feature_endpoint"], 2, ok)
            /\ ns' = IF ok
                     THEN Assign(ns, [n \in {"example", "example_label", "prediction",
                                             "explanations"} |-> "review 2"])
                     ELSE ns
            /\ kernel' = IF ok THEN Done("ok", "none") ELSE Done("SdkError", "sdk")
  /\ UNCHANGED <<files, clock, jobLog, dag, fn>>

\* def highlight(...); def colorize(...); def display_highlights(...)
XaiDefHighlights ==
  PythonCell("highlights", {},
             [n \in {"highlight", "colorize", "display_highlights"} |-> "function"])

\* example, ... = send_explanation_request(feature_endpoint, review=10)
\* attributions = explanations.attributions[0].feature_attributions["my_input"]
\* words = display_highlights(example, example_label, prediction, attributions)
XaiExplain10 ==
  /\ At("explain10", 1)
  /\ IF ~Has({"send_explanation_request", "feature_endpoint", "x_test", "y_test"})
     THEN /\ ns' = ns
          /\ cloud' = cloud
          /\ kernel' = Done("NameError", "none")
     ELSE \E ok \in BOOLEAN :
            /\ ok => ns["feature_endpoint"] \in DOMAIN cloud.endpoints
            /\ cloud' = SendExplanationRequest(ns["feature_endpoint"], 10, ok)
            /\ IF ~ok
               THEN ns' = ns /\ kernel' = Done("SdkError", "sdk")
               ELSE LET got == Assign(ns, [n \in {"example", "example_label", "prediction",
                                                  "explanations", "attributions"} |->
                                             "review 10"])
                    IN IF Has({"display_highlights"})
                       THEN /\ ns' = Assign(got, [n \in {"words"} |-> "review 10"])
                            /\ kernel' = Done("ok", "none")
                       ELSE /\ ns' = got
                            /\ kernel' = Done("NameError", "none")
  /\ UNCHANGED <<files, clock, jobLog, dag, fn>>

InitXai ==
  /\ kernel = KernelInit
  /\ ns = NoNames
  /\ cloud \in {[buckets |-> b, objects |-> {}, models |-> NoNames,
                 endpoints |-> NoNames, explains |-> {}] :
                  b \in {{}, {"gs://explainable-ai-proj"}}}
  /\ files = {}
  /\ clock = 0
  /\ jobLog = <<>>
  /\ dag = <<>>
  /\ fn = <<>>

NextXai ==
  \/ BeginXai
  \/ XaiImports
  \/ XaiSetProject
  \/ XaiGsutilLs
  \/ XaiGsutilMb
  \/ XaiInit
  \/ XaiLoadData
  \/ XaiSeed
  \/ XaiTrain
  \/ XaiExport
  \/ XaiSignature
  \/ XaiMetadata
  \/ XaiParameters
  \/ XaiUpload
  \/ XaiDeploy
  \/ XaiDefSend
  \/ XaiExplain
  \/ XaiDefHighlights
  \/ XaiExplain10

SpecXai == InitXai /\ [][NextXai]_vars

\* C6: every explanation request was sent to an endpoint that a deploy
\* created, for a model that an upload had put in the Model Registry with
\* both explanation parameters and explanation metadata.
C6_ExplainOnlyAfterUploadAndDeploy ==
  \A q \in cloud.explains :
    /\ q.endpoint \in DOMAIN cloud.endpoints
    /\ cloud.endpoints[q.endpoint] \in DOMAIN cloud.models
    /\ DOMAIN cloud.models[cloud.endpoints[q.endpoint]].spec
         = {"explanation_parameters", "explanation_metadata"}

\* C6 witness: send_explanation_request has been answered.
C6_ExplanationReceived ==
  /\ cloud.explains # {}
  /\ kernel.status = "ok"
  /\ "explanations" \in DOMAIN ns

AttributionMethods ==
  {"sampled_shapley_attribution", "integrated_gradients_attribution", "xrai_attribution"}

\* C11: the explanation parameters of every uploaded model set exactly one of
\* the three attribution methods, sampled_shapley_attribution, and its
\* path_count is 10.
C11_OnlySampledShapleyPathCountTen ==
  \A id \in DOMAIN cloud.models :
    LET params == cloud.models[id].spec["explanation_parameters"]
    IN /\ DOMAIN params \cap AttributionMethods = {"sampled_shapley_attribution"}
       /\ DOMAIN params = {"sampled_shapley_attribution"}
       /\ params["sampled_shapley_attribution"] = [path_count |-> 10]

\* C11 witness: Model.upload has put a model in the Model Registry.
C11_ModelUploaded ==
  /\ cloud.models # <<>>
  /\ "uploaded_feature_model" \in DOMAIN ns

(***************************************************************************)
(* SpecFn: the functions of explainable_text_classification.ipynb, each    *)
(* applied to arguments drawn from bounded sets.  A string is a sequence   *)
(* of characters; "NEL" stands for U+0085, one of the characters that      *)
(* str.split() takes for whitespace besides the blank.                     *)
(***************************************************************************)
max_features == 10000
maxlen == 80

\* Bounds of the argument sets.
NumWords == 2
MaxExcess == 2
PatternLen == 3
MaxProbe == 2
MaxAttr == 2
MaxAttrs == 3

Max(a, b) == IF a >= b THEN a ELSE b

Min(a, b) == IF a <= b THEN a ELSE b

Abs(a) == IF a >= 0 THEN a ELSE -a

\* ---- imdb.load_data(num_words=max_features) ----
\* A review is the start token 1 followed by one token per word: the word's
\* frequency rank (1 for the most frequent word) plus index_from = 3, or the
\* out-of-vocabulary token 2 when that is not below num_words.
EncodeWord(rank) == IF rank + 3 < max_features THEN rank + 3 ELSE 2

EncodeReview(ranks) == <<1>> \o [i \in 1..Len(ranks) |-> EncodeWord(ranks[i])]

\* ---- pad_sequences(sequences, maxlen=maxlen) ----
\* Mutant of pad_sequences: padding="post", truncating="post".
pad_sequences_post(seq, len) ==
  LET trunc == SubSeq(seq, 1, Min(Len(seq), len))
  IN [i \in 1..len |-> IF i <= Len(trunc) THEN trunc[i] ELSE 0]

\* One row of keras.utils.pad_sequences with its defaults padding="pre",
\* truncating="pre", value=0:  x = full(maxlen, value);
\* trunc = s[-maxlen:];  x[-len(trunc):] = trunc
pad_sequences(seq, len) ==
  LET trunc == SubSeq(seq, Max(1, Len(seq) - len + 1), Len(seq))
      lead == len - Len(trunc)
  IN [i \in 1..len |-> IF i <= lead THEN 0 ELSE trunc[i - lead]]

\* ---- decode_sentence ----
UNK == <<"U", "N", "K">>

\* index = imdb.get_word_index(): word -> frequency rank.
\* reverse_index = {value: key for (key, value) in index.items()}
ReverseIndex(index) ==
  [r \in {index[w] : w \in DOMAIN index} |-> CHOOSE w \in DOMAIN index : index[w] = r]

\* Mutant of DecodeToken: an offset of 2.
DecodeTokenOffsetTwo(i, rindex) ==
  IF i - 2 \in DOMAIN rindex THEN rindex[i - 2] ELSE UNK

\* index.get(i - 3, "UNK")
DecodeToken(i, rindex) ==
  IF i - 3 \in DOMAIN rindex THEN rindex[i - 3] ELSE UNK

RECURSIVE Join(_, _, _)
\* " ".join(list[lo..hi])
Join(list, lo, hi) ==
  IF lo > hi THEN <<>>
  ELSE IF lo = hi THEN list[lo]
  ELSE LET mid == (lo + hi) \div 2
       IN Join(list, lo, mid) \o <<" ">> \o Join(list, mid + 1, hi)

\* " ".join([index.get(i - 3, "UNK") for i in x])
decode_sentence(x, rindex) ==
  Join([k \in 1..Len(x) |-> DecodeToken(x[k], rindex)], 1, Len(x))

\* ---- str.split() ----
Whitespace == {" ", "NEL"}

\* s.split(): the maximal runs of characters of s that are not whitespace,
\* from left to right.
split(s) ==
  LET IsSpace(k) == s[k] \in Whitespace
      IsStart(k) == ~IsSpace(k) /\ (k = 1 \/ IsSpace(k - 1))
      IsEnd(k) == ~IsSpace(k) /\ (k = Len(s) \/ IsSpace(k + 1))
      positions == [k \in 1..Len(s) |-> k]
      starts == SelectSeq(positions, IsStart)
      ends == SelectSeq(positions, IsEnd)
  IN [j \in 1..Len(starts) |-> SubSeq(s, starts[j], ends[j])]

\* ---- colorize ----
\* The colormap's lookup table has 256 entries (matplotlib's image.lut); a
\* colour is modelled by its entry: 0 is the strongest pink, 255 the
\* strongest green, and cmap(0.5) is entry 128.
LutSize == 256

\* np.abs(attrs).max()
MaxAbs(attrs) ==
  LET abs == {Abs(attrs[k]) : k \in 1..Len(attrs)}
  IN CHOOSE m \in abs : \A a \in abs : a <= m

\* cmap(norm(x)) for norm = Normalize(vmin=-bound, vmax=bound):
\* norm(x) is 0 when vmin = vmax and (x - vmin) / (vmax - vmin) otherwise;
\* cmap(v) is entry int(v * 256), and entry 255 for v = 1.
ColorOf(x, bound) ==
  IF bound = 0 THEN 0
  ELSE Min(LutSize - 1, ((x + bound) * LutSize) \div (2 * bound))

\* colors = list(map(lambda x: rgb2hex(cmap(norm(x))), attrs))
colorize(attrs) ==
  LET cmap_bound == MaxAbs(attrs)
  IN [k \in 1..Len(attrs) |-> ColorOf(attrs[k], cmap_bound)]

\* ---- display_highlights ----
\* f"<mark style=background-color:{color}>{string} </mark>"
highlight(string, color) == [mark |-> string, color |-> color]

\* words = decode_sentence(example).split(); colors = colorize(attributions)
\* display(HTML("".join(list(map(highlight, words, colors))))); return words
\* map stops at the end of the shorter list.
display_highlights(example, rindex, attributions) ==
  LET words == split(decode_sentence(example, rindex))
      colors == colorize(attributions)
  IN [words |-> words,
      html |-> [k \in 1..Min(Len(words), Len(colors)) |->
                  highlight(words[k], colors[k])]]

\* ---- arguments ----
Words == {<<"t", "h", "e">>, <<"a">>, <<"s", "o", "NEL", "s", "o">>}

\* The word indexes: NumWords words, ranked 1..NumWords.
WordIndexes ==
  {f \in UNION {[ws -> 1..NumWords] : ws \in SUBSET Words} :
     /\ Cardinality(DOMAIN f) = Min(NumWords, Cardinality(Words))
     /\ \A v, w \in DOMAIN f : f[v] = f[w] => v = w
     /\ \A r \in 1..Cardinality(DOMAIN f) : \E w \in DOMAIN f : f[w] = r}

\* Reviews of 0, 1 and maxlen - 3 .. maxlen - 1 + MaxExcess words (one token
\* more with the start token), the ranks repeating a pattern.
ReviewLengths == {0, 1} \cup ((maxlen - 3)..(maxlen - 1 + MaxExcess))

Reviews ==
  {EncodeReview([k \in 1..n |-> pat[((k - 1) % PatternLen) + 1]]) :
     n \in ReviewLengths, pat \in [1..PatternLen -> 1..(NumWords + 1)]}

Probes == UNION {[1..n -> 0..(NumWords + 4)] : n \in 0..MaxProbe}

AttrValues == (-MaxAttr)..MaxAttr

Attributions == UNION {[1..n -> AttrValues] : n \in 1..MaxAttrs}

\* One attribution per token of an example, repeating a pattern of two.
ExampleAttributions ==
  {[k \in 1..maxlen |-> pat[((k - 1) % 2) + 1]] : pat \in [1..2 -> {-1, 0, 1}]}

Examples ==
  {pad_sequences(EncodeReview([k \in 1..n |-> pat[((k - 1) % 2) + 1]]), maxlen) :
     n \in ReviewLengths, pat \in [1..2 -> 1..(NumWords + 1)]}

\* ---- calls ----
Call_pad_sequences ==
  /\ fn.call = "pad_sequences"
  /\ fn.stage = "called"
  /\ fn' = [fn EXCEPT !.stage = "returned", !.out = pad_sequences(fn.x, maxlen)]
  /\ UNCHANGED <<kernel, ns, cloud, files, clock, jobLog, dag>>

Call_decode_sentence ==
  /\ fn.call = "decode_sentence"
  /\ fn.stage = "called"
  /\ fn' = [fn EXCEPT !.stage = "returned",
                      !.out = decode_sentence(fn.x, ReverseIndex(fn.index))]
  /\ UNCHANGED <<kernel, ns, cloud, files, clock, jobLog, dag>>

Call_colorize ==
  /\ fn.call = "colorize"
  /\ fn.stage = "called"
  /\ fn' = [fn EXCEPT !.stage = "returned", !.out = colorize(fn.attrs)]
  /\ UNCHANGED <<kernel, ns, cloud, files, clock, jobLog, dag>>

Call_display_highlights ==
  /\ fn.call = "display_highlights"
  /\ fn.stage = "called"
  /\ fn' = [fn EXCEPT !.stage = "returned",
                      !.out = display_highlights(fn.x, ReverseIndex(fn.index), fn.attrs)]
  /\ UNCHANGED <<kernel, ns, cloud, files, clock, jobLog, dag>>

InitFn ==
  /\ kernel = KernelInit
  /\ ns = NoNames
  /\ cloud = <<>>
  /\ files = {}
  /\ clock = 0
  /\ jobLog = <<>>
  /\ dag = <<>>
  /\ \/ fn \in {[call |-> "pad_sequences", stage |-> "called", x |-> x, out |-> <<>>] :
                  x \in Reviews}
     \/ fn \in {[call |-> "decode_sentence", stage |-> "called", x |-> x, index |-> w,
                 out |-> <<>>] : x \in Probes, w \in WordIndexes}
     \/ fn \in {[call |-> "colorize", stage |-> "called", attrs |-> a, out |-> <<>>] :
                  a \in Attributions}
     \/ fn \in {[call |-> "display_highlights", stage |-> "called", x |-> x, index |-> w,
                 attrs |-> a, out |-> <<>>] :
                  x \in Examples, w \in WordIndexes, a \in ExampleAttributions}

NextFn ==
  \/ Call_pad_sequences
  \/ Call_decode_sentence
  \/ Call_colorize
  \/ Call_display_highlights

SpecFn == InitFn /\ [][NextFn]_vars

Returned(f) == fn.call = f /\ fn.stage = "returned"

\* C7: pad_sequences makes of every review a sequence of exactly maxlen = 80
\* tokens: the final 80 tokens of a longer review, and a shorter review
\* behind as many padding tokens 0 as it lacks.
C7_EightyTokensFinalOrPadded ==
  Returned("pad_sequences") =>
    LET n == Len(fn.x)
    IN /\ Len(fn.out) = 80
       /\ n >= 80 => \A k \in 1..80 : fn.out[k] = fn.x[n - 80 + k]
       /\ n < 80 => /\ \A k \in 1..(80 - n) : fn.out[k] = 0
                    /\ \A k \in 1..n : fn.out[80 - n + k] = fn.x[k]

\* C7 witness: a review of more than 80 tokens has been cut.
C7_LongReviewCut == Returned("pad_sequences") /\ Len(fn.x) > 80

MostFrequentWord(index) == CHOOSE w \in DOMAIN index : index[w] = 1

Midpoint == LutSize \div 2

\* The strength of a shade: its distance from the middle of the scale.
Shade(c) == IF c >= Midpoint THEN c - Midpoint ELSE Midpoint - 1 - c

\* C10 as stated: colorize gives one colour per attribution, a green one to
\* every positive attribution, a pink one to every negative attribution, the
\* midpoint colour to an attribution of 0, and to a larger absolute
\* attribution never a weaker shade than to a smaller one of the same sign.
C10_DivergingScale ==
  Returned("colorize") =>
    /\ Len(fn.out) = Len(fn.attrs)
    /\ \A k \in 1..Len(fn.attrs) :
         /\ fn.attrs[k] > 0 => fn.out[k] >= Midpoint
         /\ fn.attrs[k] < 0 => fn.out[k] < Midpoint
         /\ fn.attrs[k] = 0 => fn.out[k] = Midpoint
    /\ \A j, k \in 1..Len(fn.attrs) :
         (fn.attrs[j] * fn.attrs[k] > 0 /\ Abs(fn.attrs[j]) >= Abs(fn.attrs[k]))
           => Shade(fn.out[j]) >= Shade(fn.out[k])

(***************************************************************************)
(* SpecTrain: one execution of traincontainer/trainer/train.py in the       *)
(* training container.  kernel is the interpreter's position in the script, *)
(* ns its global names ("os.environ" holds the environment), files the      *)
(* container's working directory, cloud the buckets and their objects.      *)
(***************************************************************************)
\* The environment variables that the script reads.
EnvNames == {"AIP_TRAINING_DATA_URI", "AIP_TEST_DATA_URI", "AIP_MODEL_DIR"}

\* The values AIP_MODEL_DIR is drawn from.
ModelDirs == {"gs://proj-bucket/model/", "gs://proj-bucket/model", ""}

\* The bucket names that line 309 may hold: the placeholder, or what the
\* substitution cell put in its place.
TrainBucketArgs == {"YOUR_GCS_BUCKET", "proj-bucket", "-bucket"}

\* The script raises: the interpreter exits with the exception.
Raise(exc) == [kernel EXCEPT !.running = "none", !.line = 0, !.status = exc,
                             !.fault = "exception"]

\* Mutant of os_path_join: the directory is dropped.
os_path_join_basename(dir, name) == "gs://proj-bucket/" \o name

\* os.path.join(dir, name) for a relative name
os_path_join(dir, name) ==
  IF dir = "" THEN name
  ELSE IF SubSeq(dir, Len(dir), Len(dir)) = "/" THEN dir \o name
  ELSE dir \o "/" \o name

\* storage.blob.Blob.from_string accepts a URI of scheme gs only.
IsGsUri(uri) == Len(uri) > 5 /\ SubSeq(uri, 1, 5) = "gs://"

\* training_data_uri = os.environ["AIP_TRAINING_DATA_URI"]
\* test_data_uri = os.environ["AIP_TEST_DATA_URI"]
TrainReadDataUris ==
  /\ At("train.py", 1)
  /\ IF {"AIP_TRAINING_DATA_URI", "AIP_TEST_DATA_URI"} \subseteq DOMAIN ns["os.environ"]
     THEN /\ ns' = Assign(ns, [n \in {"training_data_uri", "test_data_uri"} |->
                     IF n = "training_data_uri"
                     THEN ns["os.environ"]["AIP_TRAINING_DATA_URI"]
                     ELSE ns["os.environ"]["AIP_TEST_DATA_URI"]])
          /\ kernel' = Goto(2, "none")
     ELSE /\ ns' = IF "AIP_TRAINING_DATA_URI" \in DOMAIN ns["os.environ"]
                   THEN Assign(ns, [n \in {"training_data_uri"} |->
                                      ns["os.environ"]["AIP_TRAINING_DATA_URI"]])
                   ELSE ns
          /\ kernel' = Raise("KeyError")
  /\ UNCHANGED <<cloud, files, clock, jobLog, dag, fn>>

\* df = download_table(training_data_uri)
TrainDownloadTraining ==
  /\ At("train.py", 2)
  /\ \E ok \in BOOLEAN :
       /\ ns' = IF ok THEN Assign(ns, [n \in {"df"} |-> ns["training_data_uri"]]) ELSE ns
       /\ kernel' = IF ok THEN Goto(3, "none") ELSE Raise("GoogleAPIError")
  /\ UNCHANGED <<cloud, files, clock, jobLog, dag, fn>>

\* test_df = download_table(test_data_uri)
TrainDownloadTest ==
  /\ At("train.py", 3)
  /\ \E ok \in BOOLEAN :
       /\ ns' = IF ok THEN Assign(ns, [n \in {"test_df"} |-> ns["test_data_uri"]]) ELSE ns
       /\ kernel' = IF ok THEN Goto(4, "none") ELSE Raise("GoogleAPIError")
  /\ UNCHANGED <<cloud, files, clock, jobLog, dag, fn>>

\* labels = df.pop("Class").tolist(); data = df.values.tolist(); ...
\* skmodel = DecisionTreeClassifier(); skmodel.fit(data, labels)
\* score = skmodel.score(test_data, test_labels); print('accuracy is:', score)
TrainFit ==
  /\ At("train.py", 4)
  /\ \E ok \in BOOLEAN :
       /\ ns' = IF ok THEN Assign(ns, [n \in {"skmodel"} |-> "fitted on " \o ns["df"]])
                ELSE ns
       /\ kernel' = IF ok THEN Goto(5, "none") ELSE Raise("KeyError")
  /\ UNCHANGED <<cloud, files, clock, jobLog, dag, fn>>

\* dump(skmodel, "model.joblib")
TrainDump ==
  /\ At("train.py", 5)
  /\ files' = files \cup {"model.joblib"}
  /\ kernel' = Goto(6, "none")
  /\ UNCHANGED <<ns, cloud, clock, jobLog, dag, fn>>

\* bucket = storage_client.get_bucket("YOUR_GCS_BUCKET"), the argument being
\* what the image's copy of the script holds at that place.
TrainGetBucket ==
  /\ At("train.py", 6)
  /\ \E name \in TrainBucketArgs, ok \in BOOLEAN :
       /\ ok => ("gs://" \o name) \in cloud.buckets
       /\ ns' = IF ok THEN Assign(ns, [n \in {"bucket"} |-> name]) ELSE ns
       /\ kernel' = IF ok THEN Goto(7, "none") ELSE Raise("NotFound")
  /\ UNCHANGED <<cloud, files, clock, jobLog, dag, fn>>

\* model_directory = os.environ["AIP_MODEL_DIR"]
TrainReadModelDir ==
  /\ At("train.py", 7)
  /\ IF "AIP_MODEL_DIR" \in DOMAIN ns["os.environ"]
     THEN /\ ns' = Assign(ns, [n \in {"model_directory"} |->
                                 ns["os.environ"]["AIP_MODEL_DIR"]])
          /\ kernel' = Goto(8, "none")
     ELSE /\ ns' = ns
          /\ kernel' = Raise("KeyError")
  /\ UNCHANGED <<cloud, files, clock, jobLog, dag, fn>>

\* storage_path = os.path.join(model_directory, "model.joblib")
\* blob = storage.blob.Blob.from_string(storage_path, client=storage_client)
TrainMakeBlob ==
  /\ At("train.py", 8)
  /\ LET storage_path == os_path_join(ns["model_directory"], "model.joblib")
     IN IF IsGsUri(storage_path)
        THEN /\ ns' = Assign(ns, [n \in {"storage_path", "blob"} |-> storage_path])
             /\ kernel' = Goto(9, "none")
        ELSE /\ ns' = Assign(ns, [n \in {"storage_path"} |-> storage_path])
             /\ kernel' = Raise("ValueError")
  /\ UNCHANGED <<cloud, files, clock, jobLog, dag, fn>>

\* blob.upload_from_filename("model.joblib")
TrainUpload ==
  /\ At("train.py", 9)
  /\ IF "model.joblib" \notin files
     THEN /\ cloud' = cloud
          /\ kernel' = Raise("FileNotFoundError")
     ELSE \E ok \in BOOLEAN :
            /\ cloud' = IF ok
                        THEN [cloud EXCEPT !.objects = Assign(@,
                                [o \in {ns["blob"]} |-> "model.joblib"])]
                        ELSE cloud
            /\ kernel' = IF ok THEN Done("ok", "none") ELSE Raise("GoogleAPIError")
  /\ UNCHANGED <<ns, files, clock, jobLog, dag, fn>>

\* The container starts: python -m trainer.train, with the environment that
\* the training service sets, in an empty working directory.
InitTrain ==
  /\ kernel = [KernelInit EXCEPT !.running = "train.py", !.line = 1, !.status = "running"]
  /\ \E set \in SUBSET EnvNames, dir \in ModelDirs :
       ns = [n \in {"os.environ"} |->
               [v \in set |-> IF v = "AIP_MODEL_DIR" THEN dir ELSE "bq://proj.ds." \o v]]
  /\ cloud \in {[buckets |-> b, objects |-> NoNames] :
                  b \in SUBSET {"gs://proj-bucket", "gs://-bucket"}}
  /\ files = {}
  /\ clock = 0
  /\ jobLog = <<>>
  /\ dag = <<>>
  /\ fn = <<>>

NextTrain ==
  \/ TrainReadDataUris
  \/ TrainDownloadTraining
  \/ TrainDownloadTest
  \/ TrainFit
  \/ TrainDump
  \/ TrainGetBucket
  \/ TrainReadModelDir
  \/ TrainMakeBlob
  \/ TrainUpload

SpecTrain == InitTrain /\ [][NextTrain]_vars

\* The directory named by AIP_MODEL_DIR, ending in one "/".
ModelDirWithSlash ==
  LET dir == ns["os.environ"]["AIP_MODEL_DIR"]
  IN IF dir # "" /\ SubSeq(dir, Len(dir), Len(dir)) = "/" THEN dir ELSE dir \o "/"

\* What is true once an object has been uploaded: both tables were
\* downloaded, the model was fitted and saved to the local file model.joblib,
\* and the object is that file, named model.joblib under the directory
\* AIP_MODEL_DIR.
UploadedAfterFitAndSave ==
  \A o \in DOMAIN cloud.objects :
    /\ {"df", "test_df", "skmodel"} \subseteq DOMAIN ns
    /\ ns["skmodel"] = "fitted on " \o ns["df"]
    /\ "model.joblib" \in files
    /\ cloud.objects[o] = "model.joblib"
    /\ o = ModelDirWithSlash \o "model.joblib"

\* The order of the steps: a table is downloaded before the model is fitted,
\* the model is fitted before the file is saved, the file is saved before
\* anything is uploaded.
StepInScriptOrder ==
  /\ ("df" \in DOMAIN ns' /\ "df" \notin DOMAIN ns) => "skmodel" \notin DOMAIN ns
  /\ ("skmodel" \in DOMAIN ns' /\ "skmodel" \notin DOMAIN ns)
       => ({"df", "test_df"} \subseteq DOMAIN ns /\ files = {})
  /\ (files' # files) => ("skmodel" \in DOMAIN ns /\ cloud.objects = NoNames)
  /\ (cloud'.objects # cloud.objects) => "model.joblib" \in files

\* C12: train.py performs its steps in the order download the training and
\* test tables, fit the model, save it to model.joblib, upload; it uploads only
\* after the model has been fitted and saved, and the uploaded object is
\* model.joblib under the directory given by AIP_MODEL_DIR.
C12_DownloadFitSaveUpload ==
  /\ []UploadedAfterFitAndSave
  /\ [][StepInScriptOrder]_vars

\* C12 witness: the script has ended with the model uploaded.
C12_ModelUploaded ==
  /\ cloud.objects # NoNames
  /\ kernel.status = "ok"

(***************************************************************************)
(* SpecBuild: the cells of pipelines_custom_training.ipynb that write the   *)
(* training code and build its image.  files maps a path of the working    *)
(* directory to the file's lines; cloud.images holds, for every image tag  *)
(* built, the lines of the train.py copied into the image.                 *)
(***************************************************************************)
BuildCells == <<"setup", "mkdir", "dockerfile", "trainpy", "sed", "repo", "build">>

BeginBuild ==
  /\ \E i \in 1..Len(BuildCells) : BeginCell(BuildCells, i)
  /\ UNCHANGED <<ns, cloud, files, clock, jobLog, dag, fn>>

TrainPyPath == "traincontainer/trainer/train.py"

DockerfilePath == "traincontainer/Dockerfile"

\* The lines of train.py that matter here, as the %%writefile cell writes them.
TrainPy ==
  <<"dump(skmodel, \"model.joblib\")",
    "bucket = storage_client.get_bucket(\"YOUR_GCS_BUCKET\")",
    "blob.upload_from_filename(\"model.joblib\")">>

\* !mkdir -p traincontainer/trainer; !touch traincontainer/Dockerfile;
\* !touch traincontainer/trainer/train.py
\* touch leaves a file that exists as it is.
MakeDirectories ==
  /\ At("mkdir", 1)
  /\ files' = Assign([f \in {DockerfilePath, TrainPyPath} |-> <<>>], files)
  /\ kernel' = Done("ok", "none")
  /\ UNCHANGED <<ns, cloud, clock, jobLog, dag, fn>>

\* %%writefile traincontainer/Dockerfile
WriteDockerfile ==
  /\ At("dockerfile", 1)
  /\ files' = Assign(files, [f \in {DockerfilePath} |->
                               <<"COPY trainer /trainer",
                                 "ENTRYPOINT [\"python\", \"-m\", \"trainer.train\"]">>])
  /\ kernel' = Done("ok", "none")
  /\ UNCHANGED <<ns, cloud, clock, jobLog, dag, fn>>

\* %%writefile traincontainer/trainer/train.py
WriteTrainPy ==
  /\ At("trainpy", 1)
  /\ files' = Assign(files, [f \in {TrainPyPath} |-> TrainPy])
  /\ kernel' = Done("ok", "none")
  /\ UNCHANGED <<ns, cloud, clock, jobLog, dag, fn>>

\* Mutant of TrimScheme: the name is kept whole.
KeepScheme(name) == name

\* BUCKET_NAME[5:]
TrimScheme(name) == SubSeq(name, 6, Len(name))

\* BUCKET = BUCKET_NAME[5:]
SetBucket ==
  /\ At("sed", 1)
  /\ IF Has({"BUCKET_NAME"})
     THEN /\ ns' = Assign(ns, [n \in {"BUCKET"} |-> TrimScheme(ns["BUCKET_NAME"])])
          /\ kernel' = Goto(2, "none")
     ELSE /\ ns' = ns
          /\ kernel' = Done("NameError", "none")
  /\ UNCHANGED <<cloud, files, clock, jobLog, dag, fn>>

\* The place of the first occurrence of pat in line, 0 when there is none.
Find(line, pat) ==
  LET places == {k \in 1..(Len(line) - Len(pat) + 1) :
                   SubSeq(line, k, k + Len(pat) - 1) = pat}
  IN IF places = {} THEN 0 ELSE CHOOSE k \in places : \A j \in places : k <= j

\* sed "s/pat/rep/" on one line: the first occurrence of pat becomes rep.
SedSubstitute(line, pat, rep) ==
  LET k == Find(line, pat)
  IN IF k = 0 THEN line
     ELSE SubSeq(line, 1, k - 1) \o rep \o SubSeq(line, k + Len(pat), Len(line))

\* sed "s/YOUR_GCS_BUCKET/rep/" on every line of a file.
SedFile(lines, rep) ==
  [l \in 1..Len(lines) |-> SedSubstitute(lines[l], "YOUR_GCS_BUCKET", rep)]

\* !sed -i -r "s/YOUR_GCS_BUCKET/$BUCKET/" traincontainer/trainer/train.py
\* sed exits non-zero for a file that does not exist.
SedTrainPy ==
  /\ At("sed", 2)
  /\ IF TrainPyPath \in DOMAIN files
     THEN /\ files' = [files EXCEPT ![TrainPyPath] = SedFile(@, ns["BUCKET"])]
          /\ kernel' = Done("ok", "none")
     ELSE /\ files' = files
          /\ kernel' = Done("ok", "shell")
  /\ UNCHANGED <<ns, cloud, clock, jobLog, dag, fn>>

\* !docker build ./traincontainer -t $REPO_URI/$IMAGE_NAME:$VERSION
\* COPY trainer /trainer puts the working directory's train.py in the image.
DockerBuild ==
  /\ At("build", 1)
  /\ \E ok \in BOOLEAN :
       /\ ok => /\ {DockerfilePath, TrainPyPath} \subseteq DOMAIN files
                /\ files[DockerfilePath] # <<>>
                /\ Has({"REPO_URI", "IMAGE_NAME", "VERSION"})
       /\ cloud' = IF ok
                   THEN [cloud EXCEPT !.images = Assign(@,
                           [t \in {ns["REPO_URI"] \o "/" \o ns["IMAGE_NAME"] \o ":"
                                   \o ns["VERSION"]} |-> files[TrainPyPath]])]
                   ELSE cloud
       /\ kernel' = Done("ok", IF ok THEN "none" ELSE "shell")
  /\ UNCHANGED <<ns, files, clock, jobLog, dag, fn>>

InitBuild ==
  /\ kernel = KernelInit
  /\ ns = NoNames
  /\ cloud \in {[buckets |-> b, repos |-> {}, runs |-> NoNames, images |-> NoNames] :
                  b \in {{}, {"gs://proj-bucket"}}}
  /\ files = NoNames
  /\ clock = 0
  /\ jobLog = <<>>
  /\ dag = <<>>
  /\ fn = <<>>

NextBuild ==
  \/ BeginBuild
  \/ SetProjectId
  \/ SetBucketName
  \/ GsutilLs
  \/ GsutilMb
  \/ SetServiceAccount
  \/ AddIamPolicyBinding
  \/ MakeDirectories
  \/ WriteDockerfile
  \/ WriteTrainPy
  \/ SetBucket
  \/ SedTrainPy
  \/ SetRepoNames
  \/ CreateRepository
  \/ DockerBuild

SpecBuild == InitBuild /\ [][NextBuild]_vars

\* No line of train.py holds the placeholder.
NoPlaceholder ==
  \A l \in 1..Len(files[TrainPyPath]) : Find(files[TrainPyPath][l], "YOUR_GCS_BUCKET") = 0

\* train.py is the script as written, but for the argument of get_bucket,
\* which is the bucket name without gs://.
HoldsBucketName ==
  /\ "BUCKET_NAME" \in DOMAIN ns
  /\ files[TrainPyPath] =
       [TrainPy EXCEPT ![2] = "bucket = storage_client.get_bucket(\""
                              \o SubSeq(ns["BUCKET_NAME"], 6, Len(ns["BUCKET_NAME"]))
                              \o "\")"]

\* The cells up to docker build have each been run once, in document order.
BuildInDocumentOrder == At("build", 1) /\ kernel.reruns = 0

\* The substitution is about to be run on a train.py that exists.
Substituting == At("sed", 2) /\ TrainPyPath \in DOMAIN files

\* Running the substitution once more on the file would leave it as it is.
SubstitutedForGood ==
  SedFile(files'[TrainPyPath], ns["BUCKET"]) = files'[TrainPyPath]

BatchCells == <<"setup", "csv", "cp">>

BeginBatch ==
  /\ \E i \in 1..Len(BatchCells) : BeginCell(BatchCells, i)
  /\ UNCHANGED <<ns, cloud, files, clock, jobLog, dag, fn>>

\* Mutant of batch_examples_csv: a header with the Class column, and the last
\* example missing.
batch_examples_with_class ==
  <<
    "Area,Perimeter,MajorAxisLength,MinorAxisLength,AspectRation,Eccentricity,ConvexArea,EquivDiameter,Extent,Solidity,roundness,Compactness,ShapeFactor1,ShapeFactor2,ShapeFactor3,ShapeFactor4,Class",
    "23288,558.113,207.567738,143.085693,1.450653336,0.7244336162,23545,172.1952453,0.8045881703,0.9890847314,0.9395021523,0.8295857874,0.008913077034,0.002604069884,0.6882125787,0.9983578734",
    "23689,575.638,205.9678003,146.7475015,1.403552348,0.7016945718,24018,173.6714472,0.7652721693,0.9863019402,0.8983750474,0.8431970773,0.00869465998,0.002711119968,0.7109813112,0.9978994889",
    "23727,559.503,189.7993849,159.3717704,1.190922235,0.5430731512,24021,173.8106863,0.8037601626,0.9877607094,0.952462433,0.9157600082,0.007999299741,0.003470231343,0.8386163926,0.9987269085",
    "31158,641.105,212.0669751,187.1929601,1.132879009,0.4699241567,31474,199.1773023,0.7813134733,0.989959967,0.9526231013,0.9392188582,0.0068061806,0.003267009878,0.8821320637,0.9993488983",
    "32514,649.012,221.4454899,187.1344232,1.183349841,0.5346736437,32843,203.4652564,0.7849831,0.9899826447,0.9700068737,0.9188051492,0.00681077351,0.002994124691,0.8442029022,0.9989873701",
    "33078,659.456,235.5600775,178.9312328,1.316483846,0.6503915309,33333,205.2223615,0.7877214708,0.9923499235,0.9558229607,0.8712102818,0.007121351881,0.002530662194,0.7590073551,0.9992209221",
    "33680,683.09,256.203255,167.9334938,1.525623324,0.7552213942,34019,207.081404,0.80680321,0.9900349805,0.9070392732,0.8082699962,0.007606985006,0.002002710402,0.6533003868,0.9966903078",
    "33954,716.75,277.3684803,156.3563259,1.773951126,0.825970469,34420,207.9220419,0.7994819873,0.9864613597,0.8305492781,0.7496238998,0.008168948587,0.001591181142,0.5619359911,0.996846984",
    "36322,719.437,272.0582306,170.8914975,1.591993952,0.7780978465,36717,215.0502424,0.7718560075,0.9892420405,0.8818487005,0.7904566678,0.007490177594,0.001803782407,0.6248217437,0.9947124371",
    "36675,742.917,285.8908964,166.8819538,1.713132487,0.8119506999,37613,216.0927123,0.7788277766,0.9750618137,0.8350248381,0.7558572692,0.0077952528,0.001569528272,0.5713202115,0.9787472145",
    "37454,772.679,297.6274753,162.1493177,1.835514817,0.8385619338,38113,218.3756257,0.8016695205,0.9827093118,0.7883332637,0.7337213257,0.007946480356,0.001420623993,0.5383469838,0.9881438654",
    "37789,766.378,313.5680678,154.3409867,2.031657789,0.8704771226,38251,219.3500608,0.7805870567,0.9879218844,0.8085170916,0.6995293312,0.008297866252,0.001225659709,0.4893412853,0.9941740339",
    "47883,873.536,327.9986493,186.5201272,1.758516115,0.822571799,48753,246.9140116,0.7584464543,0.9821549443,0.7885506623,0.7527897207,0.006850002074,0.00135695419,0.5666923636,0.9965376533",
    "49777,861.277,300.7570338,211.6168613,1.42123379,0.7105823885,50590,251.7499649,0.8019106536,0.9839296304,0.843243269,0.8370542883,0.00604208839,0.001829706116,0.7006598815,0.9958014989",
    "49882,891.505,357.1890036,179.8346914,1.986207449,0.8640114945,51042,252.0153467,0.7260210171,0.9772736178,0.7886896753,0.7055518063,0.007160679276,0.001094585314,0.4978033513,0.9887407248",
    "53249,919.923,325.3866286,208.9174205,1.557489212,0.7666552108,54195,260.3818974,0.6966846347,0.9825445152,0.7907120655,0.8002231025,0.00611066177,0.001545654241,0.6403570138,0.9973491406",
    "61129,964.969,369.3481688,210.9473449,1.750902193,0.8208567513,61796,278.9836198,0.7501135067,0.9892064211,0.8249553283,0.7553404711,0.006042110436,0.001213219664,0.5705392272,0.9989583843",
    "61918,960.372,353.1381442,224.0962377,1.575832543,0.7728529173,62627,280.7782864,0.7539207091,0.9886790043,0.8436218213,0.7950947556,0.005703319619,0.00140599258,0.6321756704,0.9962029945",
    "141953,1402.05,524.2311633,346.3974998,1.513380332,0.7505863011,143704,425.1354762,0.7147107987,0.9878152313,0.9074598849,0.8109694843,0.003692991084,0.0009853172185,0.6576715044,0.9953071199",
    "145285,1440.991,524.9567463,353.0769977,1.486805285,0.7400216694,146709,430.0960442,0.7860466375,0.9902937107,0.8792413513,0.8192980608,0.003613289371,0.001004269363,0.6712493125,0.9980170255"
  >>

\* The lines that %%writefile writes to batch_examples.csv.
batch_examples_csv ==
  <<
    "Area,Perimeter,MajorAxisLength,MinorAxisLength,AspectRation,Eccentricity,ConvexArea,EquivDiameter,Extent,Solidity,roundness,Compactness,ShapeFactor1,ShapeFactor2,ShapeFactor3,ShapeFactor4",
    "23288,558.113,207.567738,143.085693,1.450653336,0.7244336162,23545,172.1952453,0.8045881703,0.9890847314,0.9395021523,0.8295857874,0.008913077034,0.002604069884,0.6882125787,0.9983578734",
    "23689,575.638,205.9678003,146.7475015,1.403552348,0.7016945718,24018,173.6714472,0.7652721693,0.9863019402,0.8983750474,0.8431970773,0.00869465998,0.002711119968,0.7109813112,0.9978994889",
    "23727,559.503,189.7993849,159.3717704,1.190922235,0.5430731512,24021,173.8106863,0.8037601626,0.9877607094,0.952462433,0.9157600082,0.007999299741,0.003470231343,0.8386163926,0.9987269085",
    "31158,641.105,212.0669751,187.1929601,1.132879009,0.4699241567,31474,199.1773023,0.7813134733,0.989959967,0.9526231013,0.9392188582,0.0068061806,0.003267009878,0.8821320637,0.9993488983",
    "32514,649.012,221.4454899,187.1344232,1.183349841,0.5346736437,32843,203.4652564,0.7849831,0.9899826447,0.9700068737,0.9188051492,0.00681077351,0.002994124691,0.8442029022,0.9989873701",
    "33078,659.456,235.5600775,178.9312328,1.316483846,0.6503915309,33333,205.2223615,0.7877214708,0.9923499235,0.9558229607,0.8712102818,0.007121351881,0.002530662194,0.7590073551,0.9992209221",
    "33680,683.09,256.203255,167.9334938,1.525623324,0.7552213942,34019,207.081404,0.80680321,0.9900349805,0.9070392732,0.8082699962,0.007606985006,0.002002710402,0.6533003868,0.9966903078",
    "33954,716.75,277.3684803,156.3563259,1.773951126,0.825970469,34420,207.9220419,0.7994819873,0.9864613597,0.8305492781,0.7496238998,0.008168948587,0.001591181142,0.5619359911,0.996846984",
    "36322,719.437,272.0582306,170.8914975,1.591993952,0.7780978465,36717,215.0502424,0.7718560075,0.9892420405,0.8818487005,0.7904566678,0.007490177594,0.001803782407,0.6248217437,0.9947124371",
    "36675,742.917,285.8908964,166.8819538,1.713132487,0.8119506999,37613,216.0927123,0.7788277766,0.9750618137,0.8350248381,0.7558572692,0.0077952528,0.001569528272,0.5713202115,0.9787472145",
    "37454,772.679,297.6274753,162.1493177,1.835514817,0.8385619338,38113,218.3756257,0.8016695205,0.9827093118,0.7883332637,0.7337213257,0.007946480356,0.001420623993,0.5383469838,0.9881438654",
    "37789,766.378,313.5680678,154.3409867,2.031657789,0.8704771226,38251,219.3500608,0.7805870567,0.9879218844,0.8085170916,0.6995293312,0.008297866252,0.001225659709,0.4893412853,0.9941740339",
    "47883,873.536,327.9986493,186.5201272,1.758516115,0.822571799,48753,246.9140116,0.7584464543,0.9821549443,0.7885506623,0.7527897207,0.006850002074,0.00135695419,0.5666923636,0.9965376533",
    "49777,861.277,300.7570338,211.6168613,1.42123379,0.7105823885,50590,251.7499649,0.8019106536,0.9839296304,0.843243269,0.8370542883,0.00604208839,0.001829706116,0.7006598815,0.9958014989",
    "49882,891.505,357.1890036,179.8346914,1.986207449,0.8640114945,51042,252.0153467,0.7260210171,0.9772736178,0.7886896753,0.7055518063,0.007160679276,0.001094585314,0.4978033513,0.9887407248",
    "53249,919.923,325.3866286,208.9174205,1.557489212,0.7666552108,54195,260.3818974,0.6966846347,0.9825445152,0.7907120655,0.8002231025,0.00611066177,0.001545654241,0.6403570138,0.9973491406",
    "61129,964.969,369.3481688,210.9473449,1.750902193,0.8208567513,61796,278.9836198,0.7501135067,0.9892064211,0.8249553283,0.7553404711,0.006042110436,0.001213219664,0.5705392272,0.9989583843",
    "61918,960.372,353.1381442,224.0962377,1.575832543,0.7728529173,62627,280.7782864,0.7539207091,0.9886790043,0.8436218213,0.7950947556,0.005703319619,0.00140599258,0.6321756704,0.9962029945",
    "141953,1402.05,524.2311633,346.3974998,1.513380332,0.7505863011,143704,425.1354762,0.7147107987,0.9878152313,0.9074598849,0.8109694843,0.003692991084,0.0009853172185,0.6576715044,0.9953071199",
    "145285,1440.991,524.9567463,353.0769977,1.486805285,0.7400216694,146709,430.0960442,0.7860466375,0.9902937107,0.8792413513,0.8192980608,0.003613289371,0.001004269363,0.6712493125,0.9980170255",
    "146153,1476.383,526.1933264,356.528288,1.475881001,0.7354662103,149267,431.3789276,0.7319360978,0.9791380546,0.8425962592,0.8198107159,0.003600290972,0.001003163512,0.6720896099,0.991924286"
  >>

\* %%writefile batch_examples.csv
WriteBatchExamples ==
  /\ At("csv", 1)
  /\ files' = Assign(files, [f \in {"batch_examples.csv"} |-> batch_examples_csv])
  /\ kernel' = Done("ok", "none")
  /\ UNCHANGED <<ns, cloud, clock, jobLog, dag, fn>>

\* !gsutil cp batch_examples.csv $BUCKET_NAME
\* gsutil exits non-zero without a source file, a destination or a bucket.
CopyBatchExamples ==
  /\ At("cp", 1)
  /\ \E ok \in BOOLEAN :
       /\ ok => /\ "batch_examples.csv" \in DOMAIN files
                /\ Has({"BUCKET_NAME"})
                /\ ns["BUCKET_NAME"] \in cloud.buckets
       /\ cloud' = IF ok
                   THEN [cloud EXCEPT !.objects = Assign(@,
                           [o \in {ns["BUCKET_NAME"] \o "/batch_examples.csv"} |->
                              files["batch_examples.csv"]])]
                   ELSE cloud
       /\ kernel' = Done("ok", IF ok THEN "none" ELSE "shell")
  /\ UNCHANGED <<ns, files, clock, jobLog, dag, fn>>

InitBatch ==
  /\ kernel = KernelInit
  /\ ns = NoNames
  /\ cloud \in {[buckets |-> b, repos |-> {}, runs |-> NoNames, objects |-> NoNames] :
                  b \in {{}, {"gs://proj-bucket"}}}
  /\ files = NoNames
  /\ clock = 0
  /\ jobLog = <<>>
  /\ dag = <<>>
  /\ fn = <<>>

NextBatch ==
  \/ BeginBatch
  \/ SetProjectId
  \/ SetBucketName
  \/ GsutilLs
  \/ GsutilMb
  \/ SetServiceAccount
  \/ AddIamPolicyBinding
  \/ WriteBatchExamples
  \/ CopyBatchExamples

SpecBatch == InitBatch /\ [][NextBatch]_vars

\* The comma-separated fields of a line.
Fields(line) ==
  LET IsComma(k) == SubSeq(line, k, k) = ","
      commas == SelectSeq([k \in 1..Len(line) |-> k], IsComma)
  IN [j \in 1..(Len(commas) + 1) |->
        SubSeq(line, IF j = 1 THEN 1 ELSE commas[j - 1] + 1,
                     IF j = Len(commas) + 1 THEN Len(line) ELSE commas[j] - 1)]

\* A header without the Class column, 16 fields in the header and in every
\* data row, and a number of data rows that is a multiple of 3.
WellFormedExamples(lines) ==
  /\ Len(lines) >= 1
  /\ \A j \in 1..Len(Fields(lines[1])) : Fields(lines[1])[j] # "Class"
  /\ Len(Fields(lines[1])) = 16
  /\ \A l \in 2..Len(lines) : Len(Fields(lines[l])) = Len(Fields(lines[1]))
  /\ (Len(lines) - 1) % 3 = 0

\* C14: batch_examples.csv, in the working directory and as the object copied
\* to the bucket, has no Class column, 16 comma-separated fields in the header
\* and in every data row, and a number of data rows that is a multiple of 3.
C14_BatchExamplesWellFormed ==
  /\ "batch_examples.csv" \in DOMAIN files => WellFormedExamples(files["batch_examples.csv"])
  /\ \A o \in DOMAIN cloud.objects : WellFormedExamples(cloud.objects[o])

\* C14 witness: the file has been copied to the bucket, with its 21 examples.
C14_BatchExamplesCopied ==
  /\ cloud.objects # NoNames
  /\ \A o \in DOMAIN cloud.objects : Len(cloud.objects[o]) = 22

(***************************************************************************)
(* SpecFair: the model analysis cells of fairness_tfdv_tfma.ipynb.          *)
(* cloud holds the two published record files, files maps a local path to  *)
(* the file's content, fn holds the arguments of the last call of each     *)
(* analysis variant and what the slice cell printed (<<>> before that).    *)
(***************************************************************************)
\* Bound: the number of examples of the validation set.
MaxExamples == 2

Genders == {"female", "male"}

\* A pre-processed example: the gender values it mentions, and its label.
ExampleKinds == [gender : SUBSET Genders, toxicity : {0, 1}]

\* The validation sets: 1..MaxExamples examples.
ValidationSets == UNION {[1..n -> ExampleKinds] : n \in 1..MaxExamples}

\* The training set.
TrainingSet == <<[gender |-> {"female"}, toxicity |-> 1], [gender |-> {}, toxicity |-> 0]>>

FairCells == <<"imports", "get_file", "paths", "evaluate", "pp", "slices">>

BeginFair ==
  /\ \E i \in 1..Len(FairCells) : BeginCell(FairCells, i)
  /\ UNCHANGED <<ns, cloud, files, clock, jobLog, dag, fn>>

\* The code shown after the evaluation cell is pasted into a cell and run.
BeginBeamVariant ==
  /\ Idle
  /\ kernel.reruns < MaxReruns
  /\ kernel' = [kernel EXCEPT !.running = "beam", !.line = 1, !.status = "running",
                              !.fault = "none", !.reruns = @ + 1]
  /\ UNCHANGED <<ns, cloud, files, clock, jobLog, dag, fn>>

FairImports ==
  PythonCell("imports", {},
             [n \in {"beam", "text_format", "pprint", "tf", "tfma", "tfdv",
                     "tf_example_record"} |-> "imported"])

\* train_tf_file = tf.keras.utils.get_file('train_tf_processed.tfrecord', url)
GetTrainFile ==
  /\ At("get_file", 1)
  /\ IF ~Has({"tf"})
     THEN /\ ns' = ns /\ files' = files
          /\ kernel' = Done("NameError", "none")
     ELSE \E ok \in BOOLEAN :
            /\ files' = IF ok
                        THEN Assign(files, [f \in {"train_tf_processed.tfrecord"} |->
                                              cloud.train])
                        ELSE files
            /\ ns' = IF ok
                     THEN Assign(ns, [n \in {"train_tf_file"} |->
                                        "train_tf_processed.tfrecord"])
                     ELSE ns
            /\ kernel' = IF ok THEN Goto(2, "none") ELSE Done("Exception", "sdk")
  /\ UNCHANGED <<cloud, clock, jobLog, dag, fn>>

\* validate_tf_file = tf.keras.utils.get_file('validate_tf_processed.tfrecord', url)
GetValidateFile ==
  /\ At("get_file", 2)
  /\ \E ok \in BOOLEAN :
       /\ files' = IF ok
                   THEN Assign(files, [f \in {"validate_tf_processed.tfrecord"} |->
                                         cloud.validate])
                   ELSE files
       /\ ns' = IF ok
                THEN Assign(ns, [n \in {"validate_tf_file"} |->
                                   "validate_tf_processed.tfrecord"])
                ELSE ns
       /\ kernel' = IF ok THEN Done("ok", "none") ELSE Done("Exception", "sdk")
  /\ UNCHANGED <<cloud, clock, jobLog, dag, fn>>

\* tfma_export_dir = "saved_model"; tfma_eval_result_path = 'tfma_eval_result'
FairPaths ==
  PythonCell("paths", {},
             [n \in {"tfma_export_dir", "tfma_eval_result_path"} |->
                IF n = "tfma_export_dir" THEN "saved_model" ELSE "tfma_eval_result"])

\* Mutant of SlicingSpecs: the overall slice only.
SlicingSpecsOverallOnly == {<<>>}

\* slicing_specs {}; slicing_specs {feature_keys: ["gender"]}
SlicingSpecs == {<<>>, <<"gender">>}

\* eval_config = text_format.Parse("""...""", tfma.EvalConfig())
FairEvalConfig ==
  /\ At("evaluate", 1)
  /\ IF Has({"text_format", "tfma"})
     THEN /\ ns' = Assign(ns, [n \in {"eval_config"} |->
                                 [label_key |-> "toxicity",
                                  metrics |-> "FairnessIndicators",
                                  slicing_specs |-> SlicingSpecs,
                                  compute_confidence_intervals |-> FALSE]])
          /\ kernel' = Goto(2, "none")
     ELSE /\ ns' = ns
          /\ kernel' = Done("NameError", "none")
  /\ UNCHANGED <<cloud, files, clock, jobLog, dag, fn>>

\* eval_shared_model = tfma.default_eval_shared_model(
\*     eval_saved_model_path=tfma_export_dir, eval_config=eval_config)
FairSharedModel ==
  /\ At("evaluate", 2)
  /\ IF ~Has({"tfma_export_dir"})
     THEN /\ ns' = ns
          /\ kernel' = Done("NameError", "none")
     ELSE IF ns["tfma_export_dir"] \in DOMAIN files
     THEN /\ ns' = Assign(ns, [n \in {"eval_shared_model"} |-> files[ns["tfma_export_dir"]]])
          /\ kernel' = Goto(3, "none")
     ELSE /\ ns' = ns
          /\ kernel' = Done("OSError", "sdk")
  /\ UNCHANGED <<cloud, files, clock, jobLog, dag, fn>>

\* The examples of data that belong to slice s: an example belongs to the
\* slice of a feature value when the feature holds the value.
SliceExamples(data, s) ==
  {k \in 1..Len(data) : \A j \in 1..Len(s) : s[j][2] \in data[k][s[j][1]]}

\* The slices that a slicing spec makes of the data: the overall slice for
\* no feature key, one slice per value found in the data for a feature key.
SlicesOf(data, spec) ==
  IF spec = <<>> THEN {<<>>}
  ELSE {<< <<spec[1], v>> >> : v \in UNION {data[k][spec[1]] : k \in 1..Len(data)}}

\* ExtractEvaluateAndWriteResults: for every slice of every slicing spec, the
\* metrics of the slice's examples.  With confidence intervals off the
\* random seed has no part in them.
Evaluate(data, config) ==
  [s \in UNION {SlicesOf(data, spec) : spec \in config.slicing_specs} |->
     [example_count |-> Cardinality(SliceExamples(data, s)),
      positives |-> Cardinality({k \in SliceExamples(data, s) :
                                   data[k][config.label_key] = 1})]]

\* The arguments of tfma.run_model_analysis(...)
AnalysisArguments ==
  [data |-> ns["validate_tf_file"],
   eval_config |-> ns["eval_config"],
   eval_shared_model |-> ns["eval_shared_model"],
   output_path |-> ns["tfma_eval_result_path"],
   random_seed_for_testing |-> 42]

\* eval_result = tfma.run_model_analysis(eval_shared_model=..., eval_config=...,
\*     data_location=validate_tf_file, output_path=tfma_eval_result_path,
\*     random_seed_for_testing=42)
\* It writes the results to output_path and returns them.
RunModelAnalysis ==
  /\ At("evaluate", 3)
  /\ IF ~Has({"validate_tf_file", "tfma_eval_result_path"})
     THEN /\ ns' = ns /\ files' = files /\ fn' = fn
          /\ kernel' = Done("NameError", "none")
     ELSE \E ok \in BOOLEAN :
            LET args == AnalysisArguments
                result == Evaluate(files[args.data], args.eval_config)
            IN /\ ok => args.data \in DOMAIN files
               /\ files' = IF ok THEN Assign(files, [f \in {args.output_path} |-> result])
                           ELSE files
               /\ ns' = IF ok THEN Assign(ns, [n \in {"eval_result"} |-> result]) ELSE ns
               /\ fn' = IF ok THEN [fn EXCEPT !.analysis = <<args>>] ELSE fn
               /\ kernel' = IF ok THEN Done("ok", "none") ELSE Done("Exception", "sdk")
  /\ UNCHANGED <<cloud, clock, jobLog, dag>>

\* tfx_io = tf_example_record.TFExampleRecord(file_pattern=validate_tf_file,
\*     raw_record_column_name=tfma.ARROW_INPUT_COLUMN)
BeamSource ==
  /\ At("beam", 1)
  /\ IF Has({"tf_example_record", "validate_tf_file", "tfma"})
     THEN /\ ns' = Assign(ns, [n \in {"tfx_io"} |-> ns["validate_tf_file"]])
          /\ kernel' = Goto(2, "none")
     ELSE /\ ns' = ns
          /\ kernel' = Done("NameError", "none")
  /\ UNCHANGED <<cloud, files, clock, jobLog, dag, fn>>

\* Mutant of BeamArguments: the records are read from the training file.
BeamArgumentsTrainFile ==
  [data |-> ns["train_tf_file"],
   eval_config |-> ns["eval_config"],
   eval_shared_model |-> ns["eval_shared_model"],
   output_path |-> ns["tfma_eval_result_path"],
   random_seed_for_testing |-> 42]

\* The source and the arguments of tfma.ExtractEvaluateAndWriteResults(...)
BeamArguments ==
  [data |-> ns["tfx_io"],
   eval_config |-> ns["eval_config"],
   eval_shared_model |-> ns["eval_shared_model"],
   output_path |-> ns["tfma_eval_result_path"],
   random_seed_for_testing |-> 42]

\* with beam.Pipeline() as pipeline: pipeline | tfx_io.BeamSource()
\*   | tfma.ExtractEvaluateAndWriteResults(eval_config=..., eval_shared_model=...,
\*       output_path=tfma_eval_result_path, random_seed_for_testing=42)
\* It writes the results to output_path.
BeamPipeline ==
  /\ At("beam", 2)
  /\ IF ~Has({"beam", "eval_config", "eval_shared_model", "tfma_eval_result_path"})
     THEN /\ files' = files /\ fn' = fn
          /\ kernel' = Done("NameError", "none")
     ELSE \E ok \in BOOLEAN :
            LET args == BeamArguments
                result == Evaluate(files[args.data], args.eval_config)
            IN /\ ok => args.data \in DOMAIN files
               /\ files' = IF ok THEN Assign(files, [f \in {args.output_path} |-> result])
                           ELSE files
               /\ fn' = IF ok THEN [fn EXCEPT !.beam = <<args>>] ELSE fn
               /\ kernel' = IF ok THEN Done("ok", "none") ELSE Done("Exception", "sdk")
  /\ UNCHANGED <<ns, cloud, clock, jobLog, dag>>

\* pp = pprint.PrettyPrinter()
FairPrettyPrinter ==
  PythonCell("pp", {"pprint"}, [n \in {"pp"} |-> "PrettyPrinter"])

\* Python's None.
None == [none |-> TRUE]

\* EvalResult.get_metrics_for_slice(slice_name): the metrics of the slice, or
\* None for a slice that the result does not hold.
get_metrics_for_slice(eval_result, slice_name) ==
  IF slice_name \in DOMAIN eval_result THEN eval_result[slice_name] ELSE None

baseline_slice == <<>>

female_slice == << <<"gender", "female">> >>

\* pp.pprint(eval_result.get_metrics_for_slice(baseline_slice))
\* pp.pprint(eval_result.get_metrics_for_slice(female_slice))
PrintSliceMetrics ==
  /\ At("slices", 1)
  /\ IF Has({"pp", "eval_result"})
     THEN /\ fn' = [fn EXCEPT !.printed =
                      <<get_metrics_for_slice(ns["eval_result"], baseline_slice),
                        get_metrics_for_slice(ns["eval_result"], female_slice)>>]
          /\ kernel' = Done("ok", "none")
     ELSE /\ fn' = fn
          /\ kernel' = Done("NameError", "none")
  /\ UNCHANGED <<ns, cloud, files, clock, jobLog, dag>>

InitFair ==
  /\ kernel = KernelInit
  /\ ns = NoNames
  /\ cloud \in {[train |-> TrainingSet, validate |-> v] : v \in ValidationSets}
  /\ files \in {NoNames, [f \in {"saved_model"} |-> "saved_model"]}
  /\ clock = 0
  /\ jobLog = <<>>
  /\ dag = <<>>
  /\ fn = [analysis |-> <<>>, beam |-> <<>>, printed |-> <<>>]

NextFair ==
  \/ BeginFair
  \/ BeginBeamVariant
  \/ FairImports
  \/ GetTrainFile
  \/ GetValidateFile
  \/ FairPaths
  \/ FairEvalConfig
  \/ FairSharedModel
  \/ RunModelAnalysis
  \/ BeamSource
  \/ BeamPipeline
  \/ FairPrettyPrinter
  \/ PrintSliceMetrics

SpecFair == InitFair /\ [][NextFair]_vars

\* The gender values that the validation set holds.
GendersInValidationSet ==
  UNION {cloud.validate[k].gender : k \in 1..Len(cloud.validate)}

====
